---- MODULE Spec2Model ----
(***************************************************************************)
(* Model of tacl: the State Store (pkg/common State), its persistence      *)
(* backend, the Sync Reconciler (pkg/sync), the Capability Authorizer      *)
(* (pkg/cap) and the /settings and /acls handlers.                         *)
(*                                                                         *)
(* Go values and JSON texts are tagged records:                            *)
(*   [t |-> "str"], [t |-> "arr"], [t |-> "obj"], [t |-> "null"] are both  *)
(*   generic Go values (string, []interface{}, map[string]interface{},     *)
(*   nil) and the JSON they encode to;                                     *)
(*   [t |-> "struct"] is a typed ExtendedACLEntry, [t |-> "chan"] a Go     *)
(*   value encoding/json cannot encode, [t |-> "nilmap"] a nil             *)
(*   map[string]interface{}.                                               *)
(***************************************************************************)
EXTENDS Naturals, Sequences, FiniteSets, TLC

\* ---------------------------------------------------------------- bounds
MaxCalls == 2
\* how many /acls requests a behaviour of the handlers handles
MaxReqs == 3
\* how many entries the capability value of a caller holds at most
MaxCaps == 2
\* how many UpdateKeyAndSave calls a behaviour makes while the remote comes and goes
MaxSyncCalls == 1
\* how deep the objects and arrays of a decoded JSON value nest
MaxDepth == 3
\* how many times the ticker fires in a behaviour
MaxTicks == 4
\* how far above 0 and above 2^53 the integers of a stored object lie
MaxOffset == 1

Calls == 1..MaxCalls
Keys == {"acls", "settings"}

\* ---------------------------------------------------------------- values
Str(s) == [t |-> "str", s |-> s]
Arr(a) == [t |-> "arr", a |-> a]
Obj(m) == [t |-> "obj", m |-> m]
Null == [t |-> "null"]
Chan == [t |-> "chan"]
NilMap == [t |-> "nilmap"]
EmptyMap == Obj([k \in {} |-> Null])

\* integers are (IF big THEN 2^53 ELSE 0) + d: a Go int (64 bits), the
\* digits of a JSON number, and a Go float64
Int(big, d) == [t |-> "int", big |-> big, d |-> d]
Number(big, d) == [t |-> "num", big |-> big, d |-> d]
Float64(big, d) == [t |-> "float", big |-> big, d |-> d]

\* acls.ExtendedACLEntry{ID, ACL{Action}}: `json:"id"`, `json:"action,omitempty"`
ExtendedACLEntry(id, action) == [t |-> "struct", id |-> id, action |-> action]

\* what is on disk / in the bucket
NoBlob == [t |-> "missing"]
Garbage == [t |-> "garbage"]

AclsV == Arr(<<ExtendedACLEntry("abc", "accept")>>)
NestedV ==
    Arr(<<Obj([id |-> Str("n1"),
               name |-> Str("id"),
               ids |-> Arr(<<Arr(<<Obj([id |-> Str("n2"), k |-> Null])>>)>>)])>>)
SettingsA == Obj([f1 |-> Str("a1"), f2 |-> Str("a2")])
SettingsB == Obj([f1 |-> Str("b1"), f2 |-> Str("b2")])

\* the values the handlers of a collection hand to UpdateKeyAndSave
ValuesFor(key) ==
    IF key = "acls" THEN {AclsV}
    ELSE {SettingsA, SettingsB, Null, Chan}

\* the blobs the storage location may hold when the process starts
InitialBlobs == {NoBlob, Garbage, Null, Obj([acls |-> NestedV])}

\* ---------------------------------------------------------------- encoding/json
RECURSIVE Marshalable(_)
Marshalable(v) ==
    CASE v.t = "chan" -> FALSE
      [] v.t = "arr" -> \A i \in 1..Len(v.a) : Marshalable(v.a[i])
      [] v.t = "obj" -> \A k \in DOMAIN v.m : Marshalable(v.m[k])
      [] OTHER -> TRUE

RECURSIVE Encode(_)
Encode(v) ==
    CASE v.t = "struct" ->
            Obj(IF v.action = ""
                THEN [id |-> Str(v.id)]
                ELSE [id |-> Str(v.id), action |-> Str(v.action)])
      [] v.t = "arr" -> Arr([i \in 1..Len(v.a) |-> Encode(v.a[i])])
      [] v.t = "obj" -> Obj([k \in DOMAIN v.m |-> Encode(v.m[k])])
      [] v.t = "nilmap" -> Null
      [] v.t \in {"int", "float"} -> Number(v.big, v.d)
      [] OTHER -> v

\* strconv.ParseFloat(digits, 64): from 2^53 on a float64 holds every other
\* integer, and a tie goes to the even mantissa
ParseFloat(n) ==
    Float64(n.big,
            IF ~n.big \/ n.d % 2 = 0 THEN n.d
            ELSE IF (n.d \div 2) % 2 = 0 THEN n.d - 1 ELSE n.d + 1)

\* what the decoder stores into an interface{}: float64 for a number,
\* []interface{} and map[string]interface{} for arrays and objects
RECURSIVE DecodeInterface(_)
DecodeInterface(j) ==
    CASE j.t = "num" -> ParseFloat(j)
      [] j.t = "arr" -> Arr([i \in 1..Len(j.a) |-> DecodeInterface(j.a[i])])
      [] j.t = "obj" -> Obj([k \in DOMAIN j.m |-> DecodeInterface(j.m[k])])
      [] OTHER -> j

\* json.Marshal / json.MarshalIndent
Marshal(v) ==
    IF Marshalable(v) THEN [err |-> FALSE, bytes |-> Encode(v)]
    ELSE [err |-> TRUE, bytes |-> Garbage]

\* an Unmarshal that leaves the map nil when it fails
UnmarshalIntoMapClearing(bytes, data) ==
    CASE bytes.t = "null" -> [err |-> FALSE, data |-> NilMap]
      [] bytes.t = "obj" -> [err |-> FALSE, data |-> bytes]
      [] OTHER -> [err |-> TRUE, data |-> NilMap]
\* json.Unmarshal(bytes, &s.Data) with s.Data a map[string]interface{}
UnmarshalIntoMap(bytes, data) ==
    CASE bytes.t = "null" -> [err |-> FALSE, data |-> NilMap]
      [] bytes.t = "obj" ->
            [err |-> FALSE,
             data |-> Obj([k \in (IF data.t = "obj" THEN DOMAIN data.m ELSE {})
                                    \cup DOMAIN bytes.m |->
                              IF k \in DOMAIN bytes.m THEN DecodeInterface(bytes.m[k])
                              ELSE data.m[k]])]
      [] OTHER -> [err |-> TRUE, data |-> data]

\* json.Unmarshal(bytes, &clone) with clone an interface{}
UnmarshalIntoInterface(bytes) ==
    IF bytes.t \in {"garbage", "missing"} THEN [err |-> TRUE, val |-> Null]
    ELSE [err |-> FALSE, val |-> DecodeInterface(bytes)]

\* s.Data[key] on a map that may be nil
MapGet(data, key) ==
    IF data.t = "obj" /\ key \in DOMAIN data.m THEN data.m[key] ELSE Null

\* a store that replaces the whole map
MapSetLost(data, key, value) == Obj([k \in {key} |-> value])

\* a store that copies field by field and keeps the old f2
MapSetMerge(data, key, value) ==
    Obj([k \in DOMAIN data.m \cup {key} |->
            IF k # key THEN data.m[k]
            ELSE IF value.t = "obj" /\ k \in DOMAIN data.m /\ data.m[k].t = "obj"
                    /\ DOMAIN value.m = DOMAIN data.m[k].m
                 THEN Obj([f \in DOMAIN value.m |->
                             IF f = "f2" THEN data.m[k].m[f] ELSE value.m[f]])
                 ELSE value])

\* a store that also drops the other keys that hold nil
MapSetPrunes(data, key, value) ==
    Obj([k \in {x \in DOMAIN data.m : data.m[x] # Null} \cup {key} |->
            IF k = key THEN value ELSE data.m[k]])
\* s.Data[key] = value
MapSet(data, key, value) ==
    Obj([k \in DOMAIN data.m \cup {key} |->
            IF k = key THEN value ELSE data.m[k]])

\* ---------------------------------------------------------------- pkg/sync
\* a strip that does not descend into arrays
RECURSIVE removeIDFieldsShallow(_)
removeIDFieldsShallow(obj) ==
    CASE obj.t = "obj" ->
            Obj([k \in DOMAIN obj.m \ {"id"} |-> removeIDFieldsShallow(obj.m[k])])
      [] OTHER -> obj

\* a strip that, where it finds an "id", deletes it and does not descend
RECURSIVE removeIDFieldsOnePass(_)
removeIDFieldsOnePass(obj) ==
    CASE obj.t = "arr" ->
            Arr([i \in 1..Len(obj.a) |-> removeIDFieldsOnePass(obj.a[i])])
      [] obj.t = "obj" ->
            IF "id" \in DOMAIN obj.m
            THEN Obj([k \in DOMAIN obj.m \ {"id"} |-> obj.m[k]])
            ELSE Obj([k \in DOMAIN obj.m |-> removeIDFieldsOnePass(obj.m[k])])
      [] OTHER -> obj

\* a strip that also deletes "uid"
RECURSIVE removeIDFieldsGreedy(_)
removeIDFieldsGreedy(obj) ==
    CASE obj.t = "arr" ->
            Arr([i \in 1..Len(obj.a) |-> removeIDFieldsGreedy(obj.a[i])])
      [] obj.t = "obj" ->
            Obj([k \in DOMAIN obj.m \ {"id", "uid"} |->
                    removeIDFieldsGreedy(obj.m[k])])
      [] OTHER -> obj

RECURSIVE removeIDFields(_)
removeIDFields(obj) ==
    CASE obj.t = "arr" ->
            Arr([i \in 1..Len(obj.a) |-> removeIDFields(obj.a[i])])
      [] obj.t = "obj" ->
            Obj([k \in DOMAIN obj.m \ {"id"} |-> removeIDFields(obj.m[k])])
      [] OTHER -> obj

\* ---------------------------------------------------------------- state
VARIABLES
    Data,       \* s.Data
    writers,    \* s.RWLock: the holders of the write lock
    readers,    \* s.RWLock: the holders of the read lock
    blob,       \* the file / S3 object behind s.Storage
    stage,      \* runMain: "boot", "startup" (sync.Start's first Push), "serving"
    call,       \* one UpdateKeyAndSave call per id
    applied,    \* ids of the calls in the order they executed s.Data[key] = value
    rd,         \* a request that reads: GetValue or ToJSON
    sync,       \* the Reconciler: Push / buildTailscaleACLJSON
    remote,     \* the policy file the Tailscale admin API holds for the tailnet
    remoteUp,   \* whether the admin API answers the next POST with 2xx
    areq,       \* a request on its way through TailscaleAuthMiddleware and its handler
    hreq,       \* the /acls requests being handled, one per id
    uuid,       \* the ids uuid.NewString() has handed out
    pure,       \* the argument and the results of a function under study
    tick,       \* sync.Start: the ticker, its channel and the goroutine around Push
    cli         \* the init subcommand: runInit

store == <<Data, writers, readers, blob, stage, call, applied, rd, sync>>
web == <<areq, hreq, uuid>>
misc == <<pure, tick, cli>>
vars == <<store, remote, remoteUp, web, misc>>

\* call[c].after: the calls that had returned when c asked for the lock
\* call[c].before: s.Data when c took the lock, kept while c holds the lock
\* sync.seen: the calls that had returned when the run asked for the lock
\* sync.snap: s.Data at the instant the run took the lock
IdleCall ==
    [pc |-> "idle", key |-> "", val |-> Null, before |-> EmptyMap,
     data |-> Garbage, err |-> FALSE, save |-> "", ret |-> "", after |-> {}]
IdleRead == [pc |-> "idle", op |-> "", key |-> "", res |-> Null]
IdleSync ==
    [pc |-> "idle", todo |-> {}, raw |-> EmptyMap, payload |-> Garbage,
     err |-> FALSE, snap |-> EmptyMap, seen |-> {}]

\* the tailnet's policy file before the first accepted POST
NoPolicy == [t |-> "nopolicy"]
IdleAuth ==
    [pc |-> "idle", method |-> "", path |-> <<>>, fault |-> "", caps |-> <<>>,
     status |-> 0, error |-> "", ran |-> "", body |-> Null]
Reqs == 1..MaxReqs
\* no function is under study
NoArgument == [pc |-> "none"]
\* sync.Start has not been called
IdleTicker ==
    [enabled |-> FALSE, main |-> "start", loop |-> "none", ch |-> 0, fired |-> 0,
     dropped |-> 0, delivered |-> 0, runs |-> 0, build |-> 0, put |-> 0,
     logged |-> ""]
IdleCLI == [pc |-> "none"]
IdleHandler ==
    [pc |-> "idle", op |-> "", id |-> 0, entry |-> "", acls |-> <<>>,
     status |-> ""]

Init ==
    /\ Data = EmptyMap
    /\ writers = {}
    /\ readers = {}
    /\ blob \in InitialBlobs
    /\ stage = "boot"
    /\ call = [c \in Calls |-> IdleCall]
    /\ applied = <<>>
    /\ rd = IdleRead
    /\ sync = IdleSync
    /\ remote = NoPolicy
    /\ remoteUp = FALSE
    /\ areq = IdleAuth
    /\ hreq = [r \in Reqs |-> IdleHandler]
    /\ uuid = {}
    /\ pure = NoArgument
    /\ tick = IdleTicker
    /\ cli = IdleCLI

\* ---------------------------------------------------------------- sync.RWMutex
\* a write lock that does not wait for readers
CanLockIgnoringReaders == writers = {}
CanLock == writers = {} /\ readers = {}
\* (a pending Lock() holding back new RLock() calls is left out: it only
\* removes interleavings)
\* a read lock that does not wait for the writer
CanRLockAlways == TRUE
CanRLock == writers = {}

\* ---------------------------------------------------------------- LoadFromStorage
\* loadFromFile / loadFromS3: a missing or unreadable blob returns before the
\* lock; otherwise Lock, json.Unmarshal into s.Data, deferred Unlock.
LoadFromStorage ==
    /\ stage = "boot"
    /\ CanLock
    /\ Data' = IF blob.t = "missing" THEN Data
               ELSE UnmarshalIntoMap(blob, Data).data
    /\ stage' = "startup"
    /\ UNCHANGED <<writers, readers, blob, call, applied, rd, sync, remote, remoteUp, web, misc>>

\* ---------------------------------------------------------------- UpdateKeyAndSave
Done(c) == call[c].pc = "done"

\* a handler calls UpdateKeyAndSave(key, value): s.RWLock.Lock()
UpdateLock(c) ==
    /\ stage = "serving"
    /\ call[c].pc = "idle"
    /\ \A d \in Calls : d < c => call[d].pc # "idle"
    /\ CanLock
    /\ writers' = writers \cup {c}
    /\ \E key \in Keys : \E value \in ValuesFor(key) :
          call' = [call EXCEPT ![c] =
                      [@ EXCEPT !.pc = "set", !.key = key, !.val = value,
                                !.before = Data,
                                !.after = {d \in Calls : Done(d)}]]
    /\ UNCHANGED <<Data, readers, blob, stage, applied, rd, sync, remote, remoteUp, web, misc>>

\* s.Data[key] = value; an assignment to an entry of a nil map panics, and
\* the lock (not deferred) stays held
UpdateSet(c) ==
    /\ call[c].pc = "set"
    /\ IF Data.t = "nilmap"
       THEN /\ call' = [call EXCEPT ![c].pc = "panic"]
            /\ UNCHANGED <<Data, applied>>
       ELSE /\ Data' = MapSet(Data, call[c].key, call[c].val)
            /\ applied' = Append(applied, c)
            /\ call' = [call EXCEPT ![c].pc = "marshal"]
    /\ UNCHANGED <<writers, readers, blob, stage, rd, sync, remote, remoteUp, web, misc>>

\* a marshal of the Document as it was when the lock was taken
UpdateMarshalStale(c) ==
    /\ call[c].pc = "marshal"
    /\ call' = [call EXCEPT ![c] =
                   [@ EXCEPT !.pc = "unlock",
                             !.data = Marshal(call[c].before).bytes,
                             !.err = Marshal(call[c].before).err]]
    /\ UNCHANGED <<Data, writers, readers, blob, stage, applied, rd, sync, remote, remoteUp, web, misc>>
\* data, err := json.MarshalIndent(s.Data, "", "  ")
UpdateMarshal(c) ==
    /\ call[c].pc = "marshal"
    /\ call' = [call EXCEPT ![c] =
                   [@ EXCEPT !.pc = "unlock",
                             !.data = Marshal(Data).bytes,
                             !.err = Marshal(Data).err]]
    /\ UNCHANGED <<Data, writers, readers, blob, stage, applied, rd, sync, remote, remoteUp, web, misc>>

\* s.RWLock.Unlock(); if err != nil { return err }
UpdateUnlock(c) ==
    /\ call[c].pc = "unlock"
    /\ writers' = writers \ {c}
    /\ call' = [call EXCEPT ![c] =
                   [@ EXCEPT !.pc = IF call[c].err THEN "done" ELSE "save",
                             !.ret = IF call[c].err THEN "err" ELSE "",
                             !.before = EmptyMap]]
    /\ UNCHANGED <<Data, readers, blob, stage, applied, rd, sync, remote, remoteUp, web, misc>>

\* what saveToStorage can do to the blob: the write succeeds, the open / put
\* fails (blob untouched), or the file is truncated and the write fails
SaveOutcomes == {"ok", "openfail", "writefail"}

saveToStorage(jsonData, outcome) ==
    CASE outcome = "ok" -> jsonData
      [] outcome = "openfail" -> blob
      [] OTHER -> Garbage

\* a save that undoes the in-memory write when the backend fails
UpdateSaveRollback(c) ==
    /\ call[c].pc = "save"
    /\ \E outcome \in SaveOutcomes :
          /\ blob' = saveToStorage(call[c].data, outcome)
          /\ Data' = IF outcome = "ok" THEN Data
                     ELSE Obj([k \in DOMAIN Data.m \ {call[c].key} |-> Data.m[k]])
          /\ call' = [call EXCEPT ![c] =
                         [@ EXCEPT !.pc = "done", !.ret = "nil",
                                   !.save = IF outcome = "ok" THEN "ok" ELSE "failed"]]
    /\ UNCHANGED <<writers, readers, stage, applied, rd, sync, remote, remoteUp, web, misc>>

\* s.saveToStorage(data); return nil
UpdateSave(c) ==
    /\ call[c].pc = "save"
    /\ \E outcome \in SaveOutcomes :
          /\ blob' = saveToStorage(call[c].data, outcome)
          /\ call' = [call EXCEPT ![c] =
                         [@ EXCEPT !.pc = "done", !.ret = "nil",
                                   !.save = IF outcome = "ok" THEN "ok" ELSE "failed"]]
    /\ UNCHANGED <<Data, writers, readers, stage, applied, rd, sync, remote, remoteUp, web, misc>>

\* ---------------------------------------------------------------- GetValue / ToJSON
\* a request calls GetValue(key) or ToJSON(): s.RWLock.RLock()
ReadRLock ==
    /\ stage = "serving"
    /\ rd.pc = "idle"
    /\ CanRLock
    /\ readers' = readers \cup {"rd"}
    /\ \/ \E key \in Keys : rd' = [IdleRead EXCEPT !.pc = "read", !.op = "get", !.key = key]
       \/ rd' = [IdleRead EXCEPT !.pc = "read", !.op = "tojson"]
    /\ UNCHANGED <<Data, writers, blob, stage, call, applied, sync, remote, remoteUp, web, misc>>

\* GetValue: return s.Data[key]
\* ToJSON: json.MarshalIndent(s.Data); on error return "{}"
ReadBody ==
    /\ rd.pc = "read"
    /\ rd' = [rd EXCEPT !.pc = "runlock",
                        !.res = IF rd.op = "get" THEN MapGet(Data, rd.key)
                                ELSE IF Marshal(Data).err THEN EmptyMap
                                ELSE Marshal(Data).bytes]
    /\ UNCHANGED <<Data, writers, readers, blob, stage, call, applied, sync, remote, remoteUp, web, misc>>

\* deferred s.RWLock.RUnlock(); the result goes to the caller
ReadRUnlock ==
    /\ rd.pc = "runlock"
    /\ readers' = readers \ {"rd"}
    /\ rd' = IdleRead
    /\ UNCHANGED <<Data, writers, blob, stage, call, applied, sync, remote, remoteUp, web, misc>>

\* ---------------------------------------------------------------- sync.Start / Push
\* Start: the immediate Push, before runMain listens; then one Push per
\* ticker.C delivery, in one goroutine.
\* Push calls buildTailscaleACLJSON: state.RWLock.RLock()
SyncRLock ==
    /\ stage \in {"startup", "serving"}
    /\ sync.pc = "idle"
    /\ CanRLock
    /\ readers' = readers \cup {"sync"}
    /\ sync' = [IdleSync EXCEPT !.pc = "copy",
                                !.todo = IF Data.t = "obj" THEN DOMAIN Data.m ELSE {},
                                !.raw = IF Data.t = "obj" THEN EmptyMap ELSE NilMap,
                                !.snap = Data,
                                !.seen = {d \in Calls : Done(d)}]
    /\ UNCHANGED <<Data, writers, blob, stage, call, applied, rd, remote, remoteUp, web, misc>>

\* json.Marshal(state.Data) walks the map one entry at a time
SyncCopy ==
    /\ sync.pc = "copy"
    /\ \E k \in sync.todo :
          sync' = [sync EXCEPT !.todo = @ \ {k},
                               !.raw = MapSet(@, k, MapGet(Data, k))]
    /\ UNCHANGED <<Data, writers, readers, blob, stage, call, applied, rd, remote, remoteUp, web, misc>>

\* the rest of buildTailscaleACLJSON: Unmarshal into clone, removeIDFields,
\* MarshalIndent
buildTailscaleACLJSON(raw) ==
    IF Marshal(raw).err THEN [err |-> TRUE, json |-> Garbage]
    ELSE IF UnmarshalIntoInterface(Marshal(raw).bytes).err
         THEN [err |-> TRUE, json |-> Garbage]
    ELSE [err |-> FALSE,
          json |-> Marshal(removeIDFields(
                      UnmarshalIntoInterface(Marshal(raw).bytes).val)).bytes]

\* a build that strips the ids out of s.Data itself instead of out of a clone
SyncBuildInPlace ==
    /\ sync.pc = "copy"
    /\ sync.todo = {}
    /\ sync' = [sync EXCEPT !.pc = "runlock",
                            !.err = buildTailscaleACLJSON(sync.raw).err,
                            !.payload = buildTailscaleACLJSON(sync.raw).json]
    /\ Data' = removeIDFields(Data)
    /\ UNCHANGED <<writers, readers, blob, stage, call, applied, rd, remote, remoteUp, web, misc>>
SyncBuild ==
    /\ sync.pc = "copy"
    /\ sync.todo = {}
    /\ sync' = [sync EXCEPT !.pc = "runlock",
                            !.err = buildTailscaleACLJSON(sync.raw).err,
                            !.payload = buildTailscaleACLJSON(sync.raw).json]
    /\ UNCHANGED <<Data, writers, readers, blob, stage, call, applied, rd, remote, remoteUp, web, misc>>

\* deferred state.RWLock.RUnlock()
SyncRUnlock ==
    /\ sync.pc = "runlock"
    /\ readers' = readers \ {"sync"}
    /\ sync' = [sync EXCEPT !.pc = "check"]
    /\ UNCHANGED <<Data, writers, blob, stage, call, applied, rd, remote, remoteUp, web, misc>>

\* Push: if policyJSON == "{}" { skip }
SkipsPush(policyJSON) == policyJSON = EmptyMap

\* Push returns; after the first Push, Start returns and runMain listens
EndRun ==
    /\ sync' = IdleSync
    /\ stage' = IF stage = "startup" THEN "serving" ELSE stage

\* Push, after buildTailscaleACLJSON returned
SyncCheck ==
    /\ sync.pc = "check"
    /\ IF sync.err \/ SkipsPush(sync.payload) THEN EndRun
       ELSE sync' = [sync EXCEPT !.pc = "put"] /\ UNCHANGED stage
    /\ UNCHANGED <<Data, writers, readers, blob, call, applied, rd, remote, remoteUp, web, misc>>

\* a Push whose goroutine ends at the first POST that fails
SyncPutGivesUp ==
    /\ sync.pc = "put"
    /\ remote' = IF remoteUp THEN sync.payload ELSE remote
    /\ IF remoteUp THEN EndRun
       ELSE /\ sync' = [IdleSync EXCEPT !.pc = "stopped"]
            /\ stage' = IF stage = "startup" THEN "serving" ELSE stage
    /\ UNCHANGED <<Data, writers, readers, blob, call, applied, rd, remoteUp, web, misc>>
\* putACL: the POST to the admin API answers 2xx and the tailnet holds the
\* posted policy file, or fails; either is only logged
SyncPut ==
    /\ sync.pc = "put"
    /\ remote' = IF remoteUp THEN sync.payload ELSE remote
    /\ EndRun
    /\ UNCHANGED <<Data, writers, readers, blob, call, applied, rd, remoteUp, web, misc>>

\* ---------------------------------------------------------------- specification
Next ==
    \/ LoadFromStorage
    \/ \E c \in Calls : UpdateLock(c)
    \/ \E c \in Calls : UpdateSet(c)
    \/ \E c \in Calls : UpdateMarshal(c)
    \/ \E c \in Calls : UpdateUnlock(c)
    \/ \E c \in Calls : UpdateSave(c)
    \/ ReadRLock
    \/ ReadBody
    \/ ReadRUnlock
    \/ SyncRLock
    \/ SyncCopy
    \/ SyncBuild
    \/ SyncRUnlock
    \/ SyncCheck
    \/ SyncPut

\* the remote is unreachable or rejects every POST, and no /acls handler and
\* no middleware runs: the State Store and the Reconciler by themselves
Spec == Init /\ [][Next]_vars

\* ---------------------------------------------------------------- the remote
\* api.tailscale.com becomes reachable / unreachable
RemoteComesUp ==
    /\ ~remoteUp
    /\ remoteUp' = TRUE
    /\ UNCHANGED <<store, remote, web, misc>>

RemoteGoesDown ==
    /\ remoteUp
    /\ remoteUp' = FALSE
    /\ UNCHANGED <<store, remote, web, misc>>

\* the handlers hand UpdateKeyAndSave what ShouldBindJSON decoded from a
\* request body (or nil), which encoding/json can encode again
HandlerCall(c) == UpdateLock(c) /\ Marshalable(call'[c].val)

SyncCalls == 1..MaxSyncCalls

NextSync ==
    \/ LoadFromStorage
    \/ \E c \in SyncCalls : HandlerCall(c)
    \/ \E c \in SyncCalls : UpdateSet(c)
    \/ \E c \in SyncCalls : UpdateMarshal(c)
    \/ \E c \in SyncCalls : UpdateUnlock(c)
    \/ \E c \in SyncCalls : UpdateSave(c)
    \/ ReadRLock
    \/ ReadBody
    \/ ReadRUnlock
    \/ SyncRLock
    \/ SyncCopy
    \/ SyncBuild
    \/ SyncRUnlock
    \/ SyncCheck
    \/ SyncPut
    \/ RemoteComesUp
    \/ RemoteGoesDown

\* the State Store and the Reconciler against a remote that comes and goes
SpecSync == Init /\ [][NextSync]_vars

\* the first write of a behaviour; after it the Document stops changing
FirstCall == {c \in Calls : \A d \in Calls : c <= d}

NextLevel ==
    \/ LoadFromStorage
    \/ \E c \in FirstCall : HandlerCall(c)
    \/ \E c \in FirstCall : UpdateSet(c)
    \/ \E c \in FirstCall : UpdateMarshal(c)
    \/ \E c \in FirstCall : UpdateUnlock(c)
    \/ \E c \in FirstCall : UpdateSave(c)
    \/ SyncRLock
    \/ SyncCopy
    \/ SyncBuild
    \/ SyncRUnlock
    \/ SyncCheck
    \/ SyncPut
    \/ RemoteComesUp
    \/ RemoteGoesDown

\* every goroutine that can take its next step takes it: the ticker keeps
\* firing, and a goroutine inside UpdateKeyAndSave or Push runs on
LevelFairness ==
    /\ WF_vars(LoadFromStorage)
    /\ \A c \in FirstCall :
          WF_vars(UpdateSet(c) \/ UpdateMarshal(c) \/ UpdateUnlock(c) \/ UpdateSave(c))
    /\ WF_vars(SyncRLock \/ SyncCopy \/ SyncBuild \/ SyncRUnlock \/ SyncCheck \/ SyncPut)

\* one write, then the Document stops changing, under a fair scheduler and
\* a fair ticker
SpecLevel == Init /\ [][NextLevel]_vars /\ LevelFairness

\* ---------------------------------------------------------------- pkg/cap
\* net/http status codes
StatusUnauthorized == 401
StatusInternalServerError == 500

\* a URL path is its text cut at every "/": "/settings/x" is
\* <<"/", "settings", "/", "x">>; a segment is one token, never the empty text
Paths ==
    {<<"/">>, <<"/", "settings">>, <<"/", "settings", "/", "x">>,
     <<"/", "state">>, <<"/", "healthz">>, <<"/", "/", "settings">>}
Methods == {"GET", "POST"}

\* TACLManagerCapability{Methods, Endpoints}
TACLManagerCapability(methods, endpoints) ==
    [Methods |-> methods, Endpoints |-> endpoints]
Names == {"manager", "viewer"}
MethodLists == {<<"GET">>, <<"POST">>, <<"*">>}
EndpointLists == {<<"settings">>, <<"state", "">>, <<"*">>}
\* one element of TACLAppCapabilities: map[string]TACLManagerCapability
SubcapMaps ==
    {[n \in {name} |-> TACLManagerCapability(ml, el)] :
        name \in Names, ml \in MethodLists, el \in EndpointLists}
\* type TACLAppCapabilities []map[string]TACLManagerCapability
TACLAppCapabilities == UNION {[1..n -> SubcapMaps] : n \in 0..MaxCaps}

\* what can go wrong before the capability list is in hand: SplitHostPort,
\* WhoIs, the CapMap lookup, json.Marshal of the raw value, json.Unmarshal
\* into TACLAppCapabilities.  tsServer.LocalClient() fails only when
\* tsServer.Start() did, and runMain does not get past a failed Start: the
\* "localclient" branch of the middleware is kept but never taken.
Faults == {"none", "hostport", "whois", "nocap", "marshal", "unmarshal"}

\* a comparison that takes the empty text for a match of everything
RECURSIVE stringInSlicePrefix(_, _)
stringInSlicePrefix(s, list) ==
    IF list = <<>> THEN FALSE
    ELSE IF s = "" \/ Head(list) = s THEN TRUE
    ELSE stringInSlicePrefix(s, Tail(list))
RECURSIVE stringInSlice(_, _)
stringInSlice(s, list) ==
    IF list = <<>> THEN FALSE
    ELSE IF Head(list) = s THEN TRUE
    ELSE stringInSlice(s, Tail(list))

\* for _, v := range list { if v == "*" { return true } }; stringInSlice(s, list)
matchStringListOrWildcard(s, list) ==
    IF stringInSlice("*", list) THEN TRUE ELSE stringInSlice(s, list)

\* strings.TrimPrefix(path, "/")
TrimPrefix(path) ==
    IF path # <<>> /\ Head(path) = "/" THEN Tail(path) ELSE path
\* strings.Split(trimmed, "/")[0]: the text before the first "/"
firstPathSegment(path) ==
    IF TrimPrefix(path) = <<>> THEN ""
    ELSE IF Head(TrimPrefix(path)) = "/" THEN ""
    ELSE Head(TrimPrefix(path))

\* a loop that takes the method from one entry and the endpoint from another
allowedCombined(appCaps, method, endpointFirstSegment) ==
    /\ \E i \in 1..Len(appCaps) :
          /\ "manager" \in DOMAIN appCaps[i]
          /\ matchStringListOrWildcard(method, appCaps[i]["manager"].Methods)
    /\ \E j \in 1..Len(appCaps) :
          /\ "manager" \in DOMAIN appCaps[j]
          /\ matchStringListOrWildcard(endpointFirstSegment,
                                       appCaps[j]["manager"].Endpoints)
\* a loop that evaluates the entry of every name in a sub-capability map
RECURSIVE allowedAnyName(_, _, _)
allowedAnyName(appCaps, method, endpointFirstSegment) ==
    IF appCaps = <<>> THEN FALSE
    ELSE IF \E name \in DOMAIN Head(appCaps) :
               /\ matchStringListOrWildcard(method, Head(appCaps)[name].Methods)
               /\ matchStringListOrWildcard(endpointFirstSegment,
                                            Head(appCaps)[name].Endpoints)
         THEN TRUE
    ELSE allowedAnyName(Tail(appCaps), method, endpointFirstSegment)
\* for _, subcapMap := range appCaps { if mgrCap, ok := subcapMap["manager"] ... }
RECURSIVE allowed(_, _, _)
allowed(appCaps, method, endpointFirstSegment) ==
    IF appCaps = <<>> THEN FALSE
    ELSE IF /\ "manager" \in DOMAIN Head(appCaps)
            /\ matchStringListOrWildcard(method, Head(appCaps)["manager"].Methods)
            /\ matchStringListOrWildcard(endpointFirstSegment,
                                         Head(appCaps)["manager"].Endpoints)
         THEN TRUE
    ELSE allowed(Tail(appCaps), method, endpointFirstSegment)

\* c.JSON(code, ...) without the Abort: the chain goes on
abortWithJSONContinues(code, message) ==
    [aborted |-> FALSE, code |-> code, error |-> message]
\* c.AbortWithStatusJSON(code, gin.H{"error": message})
abortWithJSON(code, message) ==
    [aborted |-> TRUE, code |-> code, error |-> message]
\* c.Next()
CNext == [aborted |-> FALSE, code |-> 0, error |-> ""]

\* a middleware that lets the request through when it cannot tell who calls
TailscaleAuthMiddlewareFailOpen(fault, appCaps, method, path) ==
    IF fault # "none" THEN CNext
    ELSE IF ~allowed(appCaps, method, firstPathSegment(path))
         THEN abortWithJSON(StatusUnauthorized,
                  "permission denied, please check tailscale capabilities")
    ELSE CNext
TailscaleAuthMiddleware(fault, appCaps, method, path) ==
    IF fault = "hostport"
    THEN abortWithJSON(StatusUnauthorized,
             "permission denied, cannot parse caller IP")
    ELSE IF fault = "localclient"
    THEN abortWithJSON(StatusInternalServerError,
             "internal error: cannot connect to Tailscale local client")
    ELSE IF fault = "whois"
    THEN abortWithJSON(StatusUnauthorized,
             "permission denied, whois lookup failed")
    ELSE IF fault = "nocap"
    THEN abortWithJSON(StatusUnauthorized,
             "permission denied, please check tailscale capabilities")
    ELSE IF fault = "marshal"
    THEN abortWithJSON(StatusUnauthorized,
             "permission denied, bad capability data")
    ELSE IF fault = "unmarshal"
    THEN abortWithJSON(StatusUnauthorized,
             "permission denied, capabilities parse error")
    ELSE IF ~allowed(appCaps, method, firstPathSegment(path))
    THEN abortWithJSON(StatusUnauthorized,
             "permission denied, please check tailscale capabilities")
    ELSE CNext

\* ---------------------------------------------------------------- the gin engine
\* r.Use(cap.TailscaleAuthMiddleware(...)) comes before every route is
\* registered, so the middleware heads the chain of every route and of the
\* no-route chain.  One request is in the engine at a time here.
ServeHTTP ==
    /\ stage = "serving"
    /\ areq.pc = "idle"
    /\ \E method \in Methods, path \in Paths, fault \in Faults,
          appCaps \in TACLAppCapabilities :
          /\ fault # "none" => appCaps = <<>>
          /\ areq' = [pc |-> IF TailscaleAuthMiddleware(
                                   fault, appCaps, method, path).aborted
                             THEN "done" ELSE "handler",
                      method |-> method, path |-> path, fault |-> fault,
                      caps |-> appCaps,
                      status |-> TailscaleAuthMiddleware(
                                     fault, appCaps, method, path).code,
                      error |-> TailscaleAuthMiddleware(
                                    fault, appCaps, method, path).error,
                      ran |-> "", body |-> Null]
    /\ UNCHANGED <<store, remote, remoteUp, hreq, uuid, misc>>

\* the handler the router finds for the request
Route(method, path) ==
    CASE method = "GET" /\ path = <<"/", "settings">> -> "getSettings"
      [] method = "POST" /\ path = <<"/", "settings">> -> "createSettings"
      [] method = "GET" /\ path = <<"/", "state">> -> "state"
      [] method = "GET" /\ path = <<"/", "healthz">> -> "healthz"
      [] OTHER -> "noRoute"
Routed(h) == areq.pc = "handler" /\ Route(areq.method, areq.path) = h

\* GET /settings
getSettings ==
    /\ Routed("getSettings")
    /\ areq' = [areq EXCEPT !.pc = "done", !.ran = "getSettings",
                            !.body = MapGet(Data, "settings")]
    /\ UNCHANGED <<store, remote, remoteUp, hreq, uuid, misc>>

\* POST /settings: 409 when settings exist, else UpdateKeyAndSave and 201
createSettings ==
    /\ Routed("createSettings")
    /\ \E newCfg \in {SettingsA, SettingsB}, outcome \in SaveOutcomes :
          IF MapGet(Data, "settings") # Null
          THEN /\ areq' = [areq EXCEPT !.pc = "done", !.ran = "createSettings",
                                       !.body = Str("Settings already exist")]
               /\ UNCHANGED <<Data, blob>>
          ELSE /\ Data' = MapSet(Data, "settings", newCfg)
               /\ blob' = saveToStorage(
                              Marshal(MapSet(Data, "settings", newCfg)).bytes,
                              outcome)
               /\ areq' = [areq EXCEPT !.pc = "done", !.ran = "createSettings",
                                       !.body = newCfg]
    /\ UNCHANGED <<writers, readers, stage, call, applied, rd, sync,
                   remote, remoteUp, hreq, uuid, misc>>

\* r.GET("/state", ...): state.ToJSON()
getState ==
    /\ Routed("state")
    /\ areq' = [areq EXCEPT !.pc = "done", !.ran = "state",
                            !.body = Marshal(Data).bytes]
    /\ UNCHANGED <<store, remote, remoteUp, hreq, uuid, misc>>

\* r.GET("/healthz", ...)
healthz ==
    /\ Routed("healthz")
    /\ areq' = [areq EXCEPT !.pc = "done", !.ran = "healthz",
                            !.body = Str("ok")]
    /\ UNCHANGED <<store, remote, remoteUp, hreq, uuid, misc>>

\* no route matches: gin's 404 page, after the middleware
noRoute ==
    /\ Routed("noRoute")
    /\ areq' = [areq EXCEPT !.pc = "done", !.ran = "noRoute",
                            !.body = Str("404 page not found")]
    /\ UNCHANGED <<store, remote, remoteUp, hreq, uuid, misc>>

\* the response is on the wire and the request is over
Respond ==
    /\ areq.pc = "done"
    /\ areq' = IdleAuth
    /\ UNCHANGED <<store, remote, remoteUp, hreq, uuid, misc>>

\* runMain is listening: the state file was missing, the first Push skipped
ServingStore ==
    /\ Data = EmptyMap
    /\ writers = {}
    /\ readers = {}
    /\ blob = NoBlob
    /\ stage = "serving"
    /\ call = [c \in Calls |-> IdleCall]
    /\ applied = <<>>
    /\ rd = IdleRead
    /\ sync = IdleSync
    /\ remote = NoPolicy
    /\ remoteUp = FALSE
\* no request is in the engine
IdleWeb ==
    /\ areq = IdleAuth
    /\ hreq = [r \in Reqs |-> IdleHandler]
    /\ uuid = {}
InitServing ==
    /\ ServingStore
    /\ IdleWeb
    /\ pure = NoArgument
    /\ tick = IdleTicker
    /\ cli = IdleCLI

NextAuth ==
    \/ ServeHTTP
    \/ getSettings
    \/ createSettings
    \/ getState
    \/ healthz
    \/ noRoute
    \/ Respond

\* requests through the middleware and the handlers, one at a time
SpecAuth == InitServing /\ [][NextAuth]_vars

\* ---------------------------------------------------------------- /acls handlers
\* createACL, updateACL and deleteACL, any number of them at once.  Each reads
\* the list under the read lock (getACLsFromState), works on its own copy and
\* hands the new list to UpdateKeyAndSave, which here is one step; ids are
\* naturals, and the ACL fields of an entry are its action.
ACLActions == {"accept", "deny"}

\* json.Unmarshal(b, &acls) with acls a []ExtendedACLEntry
UnmarshalIntoACLs(bytes) ==
    [i \in 1..Len(bytes.a) |->
        ExtendedACLEntry(bytes.a[i].m["id"].s,
                         IF "action" \in DOMAIN bytes.a[i].m
                         THEN bytes.a[i].m["action"].s ELSE "")]

getACLsFromState ==
    IF MapGet(Data, "acls") = Null THEN <<>>
    ELSE UnmarshalIntoACLs(Marshal(MapGet(Data, "acls")).bytes)

\* a generator that hands out an id it has handed out before
NewStringRepeats == IF uuid = {} THEN Cardinality(uuid) + 1 ELSE CHOOSE i \in uuid : TRUE
\* uuid.NewString(): a random version 4 UUID, taken to be one never seen before
NewString == Cardinality(uuid) + 1

IDs(acls) == [i \in 1..Len(acls) |-> acls[i].id]
HasID(acls, id) == \E i \in 1..Len(acls) : acls[i].id = id

\* ShouldBindJSON, then getACLsFromState
ReadACLs(r) ==
    /\ stage = "serving"
    /\ hreq[r].pc = "idle"
    /\ \A d \in Reqs : d < r => hreq[d].pc # "idle"
    /\ CanRLock
    /\ \E op \in {"create", "update", "delete"}, id \in uuid \cup {0},
          entry \in ACLActions :
          /\ op = "create" => id = 0
          /\ op = "delete" => entry = "accept"
          /\ op # "create" => id # 0
          /\ hreq' = [hreq EXCEPT ![r] =
                         [pc |-> "write", op |-> op, id |-> id, entry |-> entry,
                          acls |-> getACLsFromState, status |-> ""]]
    /\ UNCHANGED <<store, remote, remoteUp, areq, uuid, misc>>

\* UpdateKeyAndSave("acls", acls) of a handler, and its answer
SaveACLs(r, acls, id, status) ==
    /\ CanLock
    /\ Data' = MapSet(Data, "acls", Arr(acls))
    /\ \E outcome \in SaveOutcomes :
          blob' = saveToStorage(Marshal(MapSet(Data, "acls", Arr(acls))).bytes,
                                outcome)
    /\ hreq' = [hreq EXCEPT ![r].pc = "done", ![r].id = id, ![r].status = status]

NotFound(r) ==
    /\ hreq' = [hreq EXCEPT ![r].pc = "done", ![r].status = "404"]
    /\ UNCHANGED <<Data, blob>>

\* POST /acls
createACL(r) ==
    /\ hreq[r].pc = "write" /\ hreq[r].op = "create"
    /\ SaveACLs(r, Append(hreq[r].acls,
                          ExtendedACLEntry(NewString, hreq[r].entry)),
                NewString, "201")
    /\ uuid' = uuid \cup {NewString}
    /\ UNCHANGED <<writers, readers, stage, call, applied, rd, sync,
                   remote, remoteUp, areq, misc>>

\* PUT /acls: acls[i].ACL = req.Entry at the entry with the id
updateACL(r) ==
    /\ hreq[r].pc = "write" /\ hreq[r].op = "update"
    /\ IF HasID(hreq[r].acls, hreq[r].id)
       THEN SaveACLs(r, [i \in 1..Len(hreq[r].acls) |->
                            IF i = (CHOOSE j \in 1..Len(hreq[r].acls) :
                                      /\ hreq[r].acls[j].id = hreq[r].id
                                      /\ \A k \in 1..(j - 1) :
                                            hreq[r].acls[k].id # hreq[r].id)
                            THEN [hreq[r].acls[i] EXCEPT !.action = hreq[r].entry]
                            ELSE hreq[r].acls[i]],
                     hreq[r].id, "200")
       ELSE NotFound(r)
    /\ UNCHANGED <<writers, readers, stage, call, applied, rd, sync,
                   remote, remoteUp, areq, uuid, misc>>

\* DELETE /acls: keep the entries with another id
deleteACL(r) ==
    /\ hreq[r].pc = "write" /\ hreq[r].op = "delete"
    /\ IF HasID(hreq[r].acls, hreq[r].id)
       THEN SaveACLs(r, SelectSeq(hreq[r].acls,
                                 LAMBDA e : e.id # hreq[r].id),
                     hreq[r].id, "200")
       ELSE NotFound(r)
    /\ UNCHANGED <<writers, readers, stage, call, applied, rd, sync,
                   remote, remoteUp, areq, uuid, misc>>

NextACL ==
    \/ \E r \in Reqs : ReadACLs(r)
    \/ \E r \in Reqs : createACL(r)
    \/ \E r \in Reqs : updateACL(r)
    \/ \E r \in Reqs : deleteACL(r)

\* the /acls handlers on a store that started empty
SpecACL == InitServing /\ [][NextACL]_vars

\* ---------------------------------------------------------------- removeIDFields alone
\* The values json.Unmarshal hands to removeIDFields: scalars, and objects and
\* arrays of them down to a depth.  An object has an "id" member or not, and
\* at most one more member, keyed "name" or "uid"; an array has up to two
\* elements, the second a scalar.
Atoms == {Str("id"), Null}
IdParts ==
    {[k \in {} |-> Null]}
        \cup {[k \in {"id"} |-> v] : v \in Atoms \cup {Obj([id |-> Null])}}
OtherParts(S) ==
    {[k \in {} |-> Null]}
        \cup {[k \in {key} |-> v] : key \in {"name", "uid"}, v \in S}
RECURSIVE Shapes(_)
Shapes(d) ==
    IF d = 0 THEN Atoms
    ELSE Atoms
           \cup {Obj(i @@ o) : i \in IdParts, o \in OtherParts(Shapes(d - 1))}
           \cup {Arr(<<>>)}
           \cup {Arr(<<a>>) : a \in Shapes(d - 1)}
           \cup {Arr(<<a, b>>) : a \in Shapes(d - 1), b \in Atoms}

InitStrip ==
    /\ ServingStore
    /\ IdleWeb
    /\ pure \in {[pc |-> "clone", x |-> x, once |-> Null, twice |-> Null] :
                    x \in Shapes(MaxDepth)}
    /\ tick = IdleTicker
    /\ cli = IdleCLI

\* removeIDFields(clone)
StripOnce ==
    /\ pure.pc = "clone"
    /\ pure' = [pure EXCEPT !.pc = "once", !.once = removeIDFields(pure.x)]
    /\ UNCHANGED <<store, remote, remoteUp, web, tick, cli>>

\* removeIDFields of what removeIDFields returned
StripTwice ==
    /\ pure.pc = "once"
    /\ pure' = [pure EXCEPT !.pc = "twice", !.twice = removeIDFields(pure.once)]
    /\ UNCHANGED <<store, remote, remoteUp, web, tick, cli>>

NextStrip ==
    \/ StripOnce
    \/ StripTwice

SpecStrip == InitStrip /\ [][NextStrip]_vars

\* ---------------------------------------------------------------- sync.Start
\* Start and its goroutine, with Push cut into buildTailscaleACLJSON and
\* putACL.  tick.main is where runMain's goroutine is, tick.loop where the
\* goroutine around "for range ticker.C" is; tick.ch is len(ticker.C), a
\* channel of capacity one that drops a tick when it is full; tick.build and
\* tick.put count the Push calls inside buildTailscaleACLJSON and putACL;
\* tick.logged is what the last Push that returned wrote to the log.
InitTicker ==
    /\ ServingStore
    /\ IdleWeb
    /\ pure = NoArgument
    /\ tick \in {[IdleTicker EXCEPT !.enabled = e] : e \in BOOLEAN}
    /\ cli = IdleCLI

\* a startup Push that ends the process when it fails or skips
ReturnedOrExits(t) ==
    IF t.main = "push"
    THEN [t EXCEPT !.main = IF t.logged = "Pushed local ACL to Tailscale"
                            THEN "go" ELSE "exit"]
    ELSE IF t.loop = "push" THEN [t EXCEPT !.loop = "range"]
    ELSE t
\* Push returned to the goroutine that called it
Returned(t) ==
    IF t.main = "push" THEN [t EXCEPT !.main = "go"]
    ELSE IF t.loop = "push" THEN [t EXCEPT !.loop = "range"]
    ELSE t

\* a Start that goes to the ticker without the immediate Push
StartWithoutPush ==
    /\ tick.main = "start"
    /\ tick' = IF tick.enabled THEN [tick EXCEPT !.main = "go"]
               ELSE [tick EXCEPT !.main = "skipped"]
    /\ UNCHANGED <<store, remote, remoteUp, web, pure, cli>>
\* Start: return when the admin client or the tailnet name is missing, else
\* the immediate Push
Start ==
    /\ tick.main = "start"
    /\ tick' = IF tick.enabled
               THEN [tick EXCEPT !.main = "push", !.runs = @ + 1, !.build = @ + 1]
               ELSE [tick EXCEPT !.main = "skipped"]
    /\ UNCHANGED <<store, remote, remoteUp, web, pure, cli>>

\* Push: buildTailscaleACLJSON fails or gives "{}" and Push returns, or
\* putACL is called
PushBuilds ==
    /\ tick.build > 0
    /\ \/ \E line \in {"Failed to build Tailscale ACL JSON",
                         "Local state is empty; skipping ACL push."} :
             tick' = Returned([tick EXCEPT !.build = @ - 1, !.logged = line])
       \/ tick' = [tick EXCEPT !.build = @ - 1, !.put = @ + 1]
    /\ UNCHANGED <<store, remote, remoteUp, web, pure, cli>>

\* putACL: httpClient.Do returns, with a response or an error, and Push returns
PutACLReturns ==
    /\ tick.put > 0
    /\ \E line \in {"Failed to push local ACL to Tailscale",
                      "Pushed local ACL to Tailscale"} :
          tick' = Returned([tick EXCEPT !.put = @ - 1, !.logged = line])
    /\ UNCHANGED <<store, remote, remoteUp, web, pure, cli>>

\* go func() { ticker := time.NewTicker(interval) ... }(), and Start returns
GoLoop ==
    /\ tick.main = "go"
    /\ tick' = [tick EXCEPT !.main = "listen", !.loop = "range"]
    /\ UNCHANGED <<store, remote, remoteUp, web, pure, cli>>

\* the runtime timer sends on ticker.C without blocking
TimerFires ==
    /\ tick.loop # "none"
    /\ tick.fired < MaxTicks
    /\ tick' = [tick EXCEPT !.fired = @ + 1, !.ch = 1,
                            !.dropped = IF tick.ch = 1 THEN @ + 1 ELSE @]
    /\ UNCHANGED <<store, remote, remoteUp, web, pure, cli>>

\* a loop that starts a goroutine for each Push: go Push(...)
ReceiveAndGo ==
    /\ tick.loop = "range"
    /\ tick.ch = 1
    /\ tick' = [tick EXCEPT !.ch = 0, !.delivered = @ + 1,
                            !.runs = @ + 1, !.build = @ + 1]
    /\ UNCHANGED <<store, remote, remoteUp, web, pure, cli>>
\* for range ticker.C { Push(...) }
Receive ==
    /\ tick.loop = "range"
    /\ tick.ch = 1
    /\ tick' = [tick EXCEPT !.ch = 0, !.delivered = @ + 1, !.loop = "push",
                            !.runs = @ + 1, !.build = @ + 1]
    /\ UNCHANGED <<store, remote, remoteUp, web, pure, cli>>

NextTicker ==
    \/ Start
    \/ PushBuilds
    \/ PutACLReturns
    \/ GoLoop
    \/ TimerFires
    \/ Receive

SpecTicker == InitTicker /\ [][NextTicker]_vars

\* the goroutines run on and the timer fires; nothing bounds how long
\* httpClient.Do takes: the client has no Timeout and the request context is
\* context.Background()
TickerFairness ==
    /\ WF_vars(Start)
    /\ WF_vars(PushBuilds)
    /\ WF_vars(GoLoop)
    /\ WF_vars(TimerFires)
    /\ WF_vars(Receive)
SpecTickerFair == InitTicker /\ [][NextTicker]_vars /\ TickerFairness

\* ---------------------------------------------------------------- s.RWLock with its queue
\* sync.RWMutex as the Go runtime implements it, for the goroutines that
\* take s.RWLock: UpdateKeyAndSave calls, one GetValue / ToJSON request and
\* the Reconciler.  Lock first takes the writers' mutex (pc "lock" while it
\* waits for it), then announces itself and waits for the read holders to
\* leave (pc "drain"); from the announcement to Unlock every RLock blocks
\* (pc "rlock"), and Unlock hands the lock to the readers it blocked.  What a
\* goroutine does with the Document under the lock is left out here.
Announced == {c \in Calls : call[c].pc \in {"drain", "held"}}

\* s.RWLock.Lock() is called
MutexLock(c) ==
    /\ call[c].pc = "idle"
    /\ \E key \in Keys : call' = [call EXCEPT ![c] = [IdleCall EXCEPT !.pc = "lock", !.key = key]]
    /\ UNCHANGED <<Data, writers, readers, blob, stage, applied, rd, sync,
                   remote, remoteUp, web, misc>>

\* Lock has the writers' mutex and blocks new readers
MutexAnnounce(c) ==
    /\ call[c].pc = "lock"
    /\ Announced = {}
    /\ call' = [call EXCEPT ![c].pc = "drain"]
    /\ UNCHANGED <<Data, writers, readers, blob, stage, applied, rd, sync,
                   remote, remoteUp, web, misc>>

\* the last read holder has left: Lock returns
MutexLocked(c) ==
    /\ call[c].pc = "drain"
    /\ readers = {}
    /\ writers' = writers \cup {c}
    /\ call' = [call EXCEPT ![c].pc = "held"]
    /\ UNCHANGED <<Data, readers, blob, stage, applied, rd, sync,
                   remote, remoteUp, web, misc>>

\* s.RWLock.Unlock(): the blocked readers get the lock
MutexUnlock(c) ==
    /\ call[c].pc = "held"
    /\ writers' = writers \ {c}
    /\ call' = [call EXCEPT ![c] = IdleCall]
    /\ rd' = IF rd.pc = "rlock" THEN [rd EXCEPT !.pc = "read"] ELSE rd
    /\ sync' = IF sync.pc = "rlock" THEN [sync EXCEPT !.pc = "copy"] ELSE sync
    /\ readers' = readers \cup {g \in {"rd"} : rd.pc = "rlock"}
                          \cup {g \in {"sync"} : sync.pc = "rlock"}
    /\ UNCHANGED <<Data, blob, stage, applied, remote, remoteUp, web, misc>>

\* GetValue / ToJSON: s.RWLock.RLock() returns at once, or blocks
MutexRLock ==
    /\ rd.pc = "idle"
    /\ \E op \in {"get", "tojson"} :
          rd' = [IdleRead EXCEPT !.op = op,
                                 !.pc = IF Announced = {} THEN "read" ELSE "rlock"]
    /\ readers' = IF Announced = {} THEN readers \cup {"rd"} ELSE readers
    /\ UNCHANGED <<Data, writers, blob, stage, call, applied, sync,
                   remote, remoteUp, web, misc>>

\* deferred s.RWLock.RUnlock()
MutexRUnlock ==
    /\ rd.pc = "read"
    /\ rd' = IdleRead
    /\ readers' = readers \ {"rd"}
    /\ UNCHANGED <<Data, writers, blob, stage, call, applied, sync,
                   remote, remoteUp, web, misc>>

\* Push: buildTailscaleACLJSON calls state.RWLock.RLock()
MutexPush ==
    /\ sync.pc = "idle"
    /\ sync' = [IdleSync EXCEPT !.pc = IF Announced = {} THEN "copy" ELSE "rlock"]
    /\ readers' = IF Announced = {} THEN readers \cup {"sync"} ELSE readers
    /\ UNCHANGED <<Data, writers, blob, stage, call, applied, rd,
                   remote, remoteUp, web, misc>>

\* a Push that defers the RUnlock itself and so posts under the read lock
MutexBuiltKeepsLock ==
    /\ sync.pc = "copy"
    /\ sync' = [sync EXCEPT !.pc = "put"]
    /\ UNCHANGED <<Data, writers, readers, blob, stage, call, applied, rd,
                   remote, remoteUp, web, misc>>
\* buildTailscaleACLJSON returns through its deferred RUnlock; Push goes on
\* to putACL
MutexBuilt ==
    /\ sync.pc = "copy"
    /\ sync' = [sync EXCEPT !.pc = "put"]
    /\ readers' = readers \ {"sync"}
    /\ UNCHANGED <<Data, writers, blob, stage, call, applied, rd,
                   remote, remoteUp, web, misc>>

\* putACL returns, whenever the remote lets it
MutexPushed ==
    /\ sync.pc = "put"
    /\ sync' = IdleSync
    /\ readers' = readers \ {"sync"}
    /\ UNCHANGED <<Data, writers, blob, stage, call, applied, rd,
                   remote, remoteUp, web, misc>>

NextMutex ==
    \/ \E c \in Calls : MutexLock(c)
    \/ \E c \in Calls : MutexAnnounce(c)
    \/ \E c \in Calls : MutexLocked(c)
    \/ \E c \in Calls : MutexUnlock(c)
    \/ MutexRLock
    \/ MutexRUnlock
    \/ MutexPush
    \/ MutexBuilt
    \/ MutexPushed

\* requests and the Reconciler contending for s.RWLock while runMain serves
SpecMutex == InitServing /\ [][NextMutex]_vars

\* ---------------------------------------------------------------- restart
\* One process after another on the same storage location.  Each serves
\* UpdateKeyAndSave calls one at a time; pure.D is the Document whose bytes
\* the last successful save wrote (NoBlob before the first one, Garbage
\* after a torn write).  Restart is the next process's NewState and
\* LoadFromStorage.
RestartKeys == Keys \cup {"derpMap"}

\* tsclient.ACLDERPMap{Regions: {1: {RegionID: n}}}
ACLDERPMap(n) == Obj([regions |-> Obj([r1 |-> Obj([regionID |-> n])])])

RestartValuesFor(key) ==
    CASE key = "acls" -> {AclsV}
      [] key = "settings" -> {SettingsA, Chan}
      [] OTHER -> {ACLDERPMap(Int(big, d)) : big \in BOOLEAN, d \in 0..MaxOffset}

InitRestart ==
    /\ ServingStore
    /\ IdleWeb
    /\ pure = [pc |-> "serving", D |-> NoBlob]
    /\ tick = IdleTicker
    /\ cli = IdleCLI

\* UpdateKeyAndSave(key, value) from Lock to return
RestartUpdate ==
    \E key \in RestartKeys : \E value \in RestartValuesFor(key) :
    \E outcome \in SaveOutcomes :
        LET d == MapSet(Data, key, value)
            m == Marshal(d)
        IN  /\ Data' = d
            /\ blob' = IF m.err THEN blob ELSE saveToStorage(m.bytes, outcome)
            /\ pure' = [pc |-> "serving",
                        D |-> IF m.err \/ outcome = "openfail" THEN pure.D
                              ELSE IF outcome = "ok" THEN d ELSE Garbage]
            /\ UNCHANGED <<writers, readers, stage, call, applied, rd, sync,
                           remote, remoteUp, web, tick, cli>>

\* the process ends; the next one starts with an empty Data and loads
Restart ==
    /\ Data' = IF blob.t = "missing" THEN EmptyMap
               ELSE UnmarshalIntoMap(blob, EmptyMap).data
    /\ pure' = [pure EXCEPT !.pc = "loaded"]
    /\ UNCHANGED <<writers, readers, blob, stage, call, applied, rd, sync,
                   remote, remoteUp, web, tick, cli>>

NextRestart ==
    \/ RestartUpdate
    \/ Restart

SpecRestart == InitRestart /\ [][NextRestart]_vars

\* ---------------------------------------------------------------- single-object resources
\* The POST, PUT and DELETE handlers of /settings, /autoapprovers and
\* /derpmap, any number of them at once.  Each binds its body, asks
\* get...FromState whether an object is stored (GetValue, under the read
\* lock), answers 409 / 404 on that, and otherwise calls UpdateKeyAndSave,
\* which here is one step.
Singles == {"settings", "autoApprovers", "derpMap"}

\* tsclient.ACLAutoApprovers{ExitNode: ["tag:a"]}
ACLAutoApprovers == Obj([exitNode |-> Arr(<<Str("tag:a")>>)])

BodiesFor(key) ==
    CASE key = "settings" -> {SettingsA, SettingsB}
      [] key = "autoApprovers" -> {ACLAutoApprovers}
      [] OTHER -> {ACLDERPMap(Int(FALSE, 1))}

\* a lookup that asks whether the map has the key
ExistsInStateByKey(key) == Data.t = "obj" /\ key \in DOMAIN Data.m
\* getSettingsFromState / getAutoApproversFromState / getDERPMapFromState
\* return nil for a nil GetValue
ExistsInState(key) == MapGet(Data, key) # Null

\* getSettings / getAutoApprovers: 200 with the stored object, or with an
\* empty one when get...FromState returns nil; getDERPMap answers 404 then
getObject(r) ==
    /\ stage = "serving"
    /\ hreq[r].pc = "idle"
    /\ \A d \in Reqs : d < r => hreq[d].pc # "idle"
    /\ CanRLock
    /\ \E key \in Singles :
          hreq' = [hreq EXCEPT ![r] =
                      [pc |-> "done", op |-> "GET", key |-> key,
                       body |-> IF ExistsInState(key) THEN MapGet(Data, key) ELSE EmptyMap,
                       existing |-> ExistsInState(key),
                       status |-> IF key = "derpMap" /\ ~ExistsInState(key)
                                  THEN "404" ELSE "200"]]
    /\ UNCHANGED <<store, remote, remoteUp, areq, uuid, misc>>

\* ShouldBindJSON, then get...FromState
ReadObject(r) ==
    /\ stage = "serving"
    /\ hreq[r].pc = "idle"
    /\ \A d \in Reqs : d < r => hreq[d].pc # "idle"
    /\ CanRLock
    /\ \E op \in {"POST", "PUT", "DELETE"}, key \in Singles :
       \E body \in BodiesFor(key) \cup {Null} :
          /\ op = "DELETE" <=> body = Null
          /\ hreq' = [hreq EXCEPT ![r] =
                         [pc |-> "write", op |-> op, key |-> key, body |-> body,
                          existing |-> ExistsInState(key), status |-> ""]]
    /\ UNCHANGED <<store, remote, remoteUp, areq, uuid, misc>>

\* the answer to a request that was refused on what it read
Refuse(r, status) ==
    /\ hreq' = [hreq EXCEPT ![r].pc = "done", ![r].status = status]
    /\ UNCHANGED <<Data, blob>>

\* UpdateKeyAndSave(key, value) of a handler, and its answer
SaveObject(r, value, status) ==
    /\ CanLock
    /\ Data' = MapSet(Data, hreq[r].key, value)
    /\ \E outcome \in SaveOutcomes :
          blob' = saveToStorage(Marshal(MapSet(Data, hreq[r].key, value)).bytes,
                                outcome)
    /\ hreq' = [hreq EXCEPT ![r].pc = "done", ![r].status = status]

\* createSettings / createAutoApprovers / createDERPMap
createObject(r) ==
    /\ hreq[r].pc = "write" /\ hreq[r].op = "POST"
    /\ IF hreq[r].existing
       THEN Refuse(r, "409")
       ELSE SaveObject(r, hreq[r].body, "201")
    /\ UNCHANGED <<writers, readers, stage, call, applied, rd, sync,
                   remote, remoteUp, areq, uuid, misc>>

\* updateSettings / updateAutoApprovers / updateDERPMap
updateObject(r) ==
    /\ hreq[r].pc = "write" /\ hreq[r].op = "PUT"
    /\ IF hreq[r].existing
       THEN SaveObject(r, hreq[r].body, "200")
       ELSE Refuse(r, "404")
    /\ UNCHANGED <<writers, readers, stage, call, applied, rd, sync,
                   remote, remoteUp, areq, uuid, misc>>

\* deleteSettings / deleteAutoApprovers / deleteDERPMap:
\* UpdateKeyAndSave(key, nil)
deleteObject(r) ==
    /\ hreq[r].pc = "write" /\ hreq[r].op = "DELETE"
    /\ IF hreq[r].existing
       THEN SaveObject(r, Null, "200")
       ELSE Refuse(r, "404")
    /\ UNCHANGED <<writers, readers, stage, call, applied, rd, sync,
                   remote, remoteUp, areq, uuid, misc>>

NextSingle ==
    \/ \E r \in Reqs : getObject(r)
    \/ \E r \in Reqs : ReadObject(r)
    \/ \E r \in Reqs : createObject(r)
    \/ \E r \in Reqs : updateObject(r)
    \/ \E r \in Reqs : deleteObject(r)

\* the single-object handlers on a store that started empty
SpecSingle == InitServing /\ [][NextSingle]_vars

\* ---------------------------------------------------------------- /groups
\* createGroup, any number of them at once.  state.Data["groups"] is a map
\* from "group:<name>" to the members; getGroupsFromState turns it into a
\* list of Group{Name, Members} and saveGroups turns a list back into the
\* map.  createTagOwner ("tag:") and createPosture ("posture:") are the same
\* code with another prefix.
GroupNames == {"eng", "ops", "group:eng"}
MemberLists == {Arr(<<Str("alice")>>), Arr(<<Str("bob")>>)}

\* strings.HasPrefix(name, "group:")
HasGroupPrefix(name) == name = "group:eng"
\* strings.TrimPrefix(fullKey, "group:")
TrimGroupPrefix(fullKey) ==
    CASE fullKey = "group:eng" -> "eng"
      [] fullKey = "group:ops" -> "ops"
      [] OTHER -> fullKey
\* "group:" + key
AddGroupPrefix(key) ==
    CASE key = "eng" -> "group:eng"
      [] key = "ops" -> "group:ops"
      [] OTHER -> "group:group:eng"

Group(name, members) == [name |-> name, members |-> members]

\* the stored map (no key when GetValue returns nil)
GroupsMap == IF MapGet(Data, "groups") = Null THEN [k \in {} |-> Null]
             ELSE MapGet(Data, "groups").m

\* getGroupsFromState: one Group for each key of the map, in the order the
\* map happens to be ranged over, which no caller depends on; the order
\* here is the one CHOOSE picks
RECURSIVE GroupsOf(_)
GroupsOf(m) ==
    IF DOMAIN m = {} THEN <<>>
    ELSE LET k == CHOOSE x \in DOMAIN m : TRUE
         IN  Append(GroupsOf([y \in DOMAIN m \ {k} |-> m[y]]),
                    Group(TrimGroupPrefix(k), m[k]))
getGroupsFromState == GroupsOf(GroupsMap)

\* the key saveGroups stores a group under
GroupKey(g) == IF HasGroupPrefix(g.name) THEN g.name ELSE AddGroupPrefix(g.name)

\* saveGroups: m[key] = g.Members for each group in turn, a later group
\* overwriting an earlier one with the same key
saveGroupsMap(groups) ==
    [k \in {GroupKey(groups[i]) : i \in 1..Len(groups)} |->
        groups[CHOOSE i \in 1..Len(groups) :
                  /\ GroupKey(groups[i]) = k
                  /\ \A j \in (i + 1)..Len(groups) : GroupKey(groups[j]) # k].members]

\* ShouldBindJSON, the check of the name, getGroupsFromState
ReadGroups(r) ==
    /\ stage = "serving"
    /\ hreq[r].pc = "idle"
    /\ \A d \in Reqs : d < r => hreq[d].pc # "idle"
    /\ CanRLock
    /\ \E name \in GroupNames, members \in MemberLists :
          hreq' = [hreq EXCEPT ![r] =
                      [pc |-> "write", op |-> "create",
                       newGroup |-> Group(name, members),
                       groups |-> getGroupsFromState, status |-> ""]]
    /\ UNCHANGED <<store, remote, remoteUp, areq, uuid, misc>>

\* createGroup from the conflict check on
createGroup(r) ==
    /\ hreq[r].pc = "write" /\ hreq[r].op = "create"
    /\ IF \E i \in 1..Len(hreq[r].groups) :
             hreq[r].groups[i].name = hreq[r].newGroup.name
       THEN Refuse(r, "409")
       ELSE /\ CanLock
            /\ Data' = MapSet(Data, "groups",
                              Obj(saveGroupsMap(Append(hreq[r].groups, hreq[r].newGroup))))
            /\ \E outcome \in SaveOutcomes :
                  blob' = saveToStorage(Marshal(Data').bytes, outcome)
            /\ hreq' = [hreq EXCEPT ![r].pc = "done", ![r].status = "201"]
    /\ UNCHANGED <<writers, readers, stage, call, applied, rd, sync,
                   remote, remoteUp, areq, uuid, misc>>

NextGroups ==
    \/ \E r \in Reqs : ReadGroups(r)
    \/ \E r \in Reqs : createGroup(r)

\* the /groups handlers on a store that started empty
SpecGroups == InitServing /\ [][NextGroups]_vars

\* ---------------------------------------------------------------- tacl init
\* runInit with a file:// or s3:// storage: a State with an empty Data,
\* LoadFromStorage, the prompt, the embedded default ACL, the save.
\* cli.stored is the blob runInit found, cli.force the --force flag,
\* cli.answer the word the user types at the prompt.
DefaultACL == Obj([acls |-> Arr(<<Obj([action |-> Str("accept")])>>)])

Answers == {"y", "yes", "Y", "YES", "n", ""}
\* strings.ToLower(strings.TrimSpace(answer)) of a word fmt.Scanln read
ToLower(answer) ==
    CASE answer = "Y" -> "y"
      [] answer = "YES" -> "yes"
      [] OTHER -> answer

\* len(state.Data)
LenData == IF Data.t = "obj" THEN Cardinality(DOMAIN Data.m) ELSE 0

InitCLI ==
    /\ Data = EmptyMap
    /\ writers = {}
    /\ readers = {}
    /\ blob \in InitialBlobs \cup {EmptyMap, Obj([settings |-> SettingsA])}
    /\ stage = "boot"
    /\ call = [c \in Calls |-> IdleCall]
    /\ applied = <<>>
    /\ rd = IdleRead
    /\ sync = IdleSync
    /\ remote = NoPolicy
    /\ remoteUp = FALSE
    /\ IdleWeb
    /\ pure = NoArgument
    /\ tick = IdleTicker
    /\ cli \in {[pc |-> "load", force |-> f, answer |-> a, stored |-> blob,
                  out |-> ""] : f \in BOOLEAN, a \in Answers}

\* state.LoadFromStorage(): the read of the file or object fails, or the
\* bytes are decoded into state.Data
InitLoad ==
    /\ cli.pc = "load"
    /\ \E read \in {"ok", "fail"} :
          Data' = IF read = "fail" \/ blob.t = "missing" THEN Data
                  ELSE UnmarshalIntoMap(blob, Data).data
    /\ cli' = [cli EXCEPT !.pc = "prompt"]
    /\ UNCHANGED <<writers, readers, blob, stage, call, applied, rd, sync,
                   remote, remoteUp, web, pure, tick>>

\* if len(state.Data) > 0 && !skipPrompt: ask, and return on any answer
\* but y / yes
InitPrompt ==
    /\ cli.pc = "prompt"
    /\ cli' = IF LenData > 0 /\ ~cli.force /\ ToLower(cli.answer) \notin {"y", "yes"}
              THEN [cli EXCEPT !.pc = "done", !.out = "cancelled"]
              ELSE [cli EXCEPT !.pc = "overwrite"]
    /\ UNCHANGED <<store, remote, remoteUp, web, pure, tick>>

\* json.Unmarshal(embeddedDefaultACL, &data); state.Data = data
InitOverwrite ==
    /\ cli.pc = "overwrite"
    /\ Data' = UnmarshalIntoMap(Encode(DefaultACL), NilMap).data
    /\ cli' = [cli EXCEPT !.pc = "save"]
    /\ UNCHANGED <<writers, readers, blob, stage, call, applied, rd, sync,
                   remote, remoteUp, web, pure, tick>>

\* json.MarshalIndent(state.Data); state.SaveBytesToStorage(jBytes);
\* return nil
InitSave ==
    /\ cli.pc = "save"
    /\ \E outcome \in SaveOutcomes :
          blob' = saveToStorage(Marshal(Data).bytes, outcome)
    /\ cli' = [cli EXCEPT !.pc = "done", !.out = "initialized"]
    /\ UNCHANGED <<Data, writers, readers, stage, call, applied, rd, sync,
                   remote, remoteUp, web, pure, tick>>

NextCLI ==
    \/ InitLoad
    \/ InitPrompt
    \/ InitOverwrite
    \/ InitSave

SpecCLI == InitCLI /\ [][NextCLI]_vars

\* ---------------------------------------------------------------- get...FromState
\* A handler's get...FromState beside UpdateKeyAndSave calls: GetValue
\* returns s.Data[key] itself (the slice, map or struct stored there, not a
\* copy) through its deferred RUnlock, and the handler then reads that value
\* with json.Marshal(raw).  rd.pc = "raw" is the handler holding the value
\* before it marshals it.
GetValueReturns ==
    /\ rd.pc = "runlock" /\ rd.op = "get"
    /\ readers' = readers \ {"rd"}
    /\ rd' = IF rd.res = Null THEN IdleRead ELSE [rd EXCEPT !.pc = "raw"]
    /\ UNCHANGED <<Data, writers, blob, stage, call, applied, sync, remote, remoteUp, web, misc>>

\* b, err := json.Marshal(raw), and the decoding of b into the handler's own
\* copy
MarshalRaw ==
    /\ rd.pc = "raw"
    /\ rd' = IdleRead
    /\ UNCHANGED <<Data, writers, readers, blob, stage, call, applied, sync, remote, remoteUp, web, misc>>

NextTouch ==
    \/ \E c \in Calls : HandlerCall(c)
    \/ \E c \in Calls : UpdateSet(c)
    \/ \E c \in Calls : UpdateMarshal(c)
    \/ \E c \in Calls : UpdateUnlock(c)
    \/ \E c \in Calls : UpdateSave(c)
    \/ ReadRLock
    \/ ReadBody
    \/ ReadRUnlock
    \/ GetValueReturns
    \/ MarshalRaw

\* handlers reading and writing a store that started empty
SpecTouch == InitServing /\ [][NextTouch]_vars

\* ---------------------------------------------------------------- properties
Issued == {c \in Calls : call[c].pc # "idle"}
Quiescent == \A c \in Calls : call[c].pc \in {"idle", "done"}
Pos(c) == CHOOSE i \in 1..Len(applied) : applied[i] = c
Applied(c) == \E i \in 1..Len(applied) : applied[i] = c
\* c is the last call that stored under its key
LastOnKey(c) ==
    /\ Applied(c)
    /\ \A d \in Calls : Applied(d) /\ Pos(d) > Pos(c) => call[d].key # call[c].key
InWrite(c) == call[c].pc \in {"set", "marshal", "unlock", "panic"}
InRead == rd.pc \in {"read", "runlock"}
InSnapshot == sync.pc \in {"copy", "runlock"}
IsEmptyDoc(d) == d.t = "nilmap" \/ DOMAIN d.m = {}

\* no object member keyed "id" anywhere in v
RECURSIVE NoIdKey(_)
NoIdKey(v) ==
    CASE v.t = "arr" -> \A i \in 1..Len(v.a) : NoIdKey(v.a[i])
      [] v.t = "obj" -> "id" \notin DOMAIN v.m /\ \A k \in DOMAIN v.m : NoIdKey(v.m[k])
      [] OTHER -> TRUE

\* p is v without its "id" members, and nothing else changed
RECURSIVE IsStripOf(_, _)
IsStripOf(p, v) ==
    /\ p.t = v.t
    /\ CASE v.t = "arr" ->
              /\ Len(p.a) = Len(v.a)
              /\ \A i \in 1..Len(v.a) : IsStripOf(p.a[i], v.a[i])
         [] v.t = "obj" ->
              /\ DOMAIN p.m = DOMAIN v.m \ {"id"}
              /\ \A k \in DOMAIN p.m : IsStripOf(p.m[k], v.m[k])
         [] OTHER -> p = v

\* C1: whenever every issued UpdateKeyAndSave has returned, none failed to
\* marshal and no saveToStorage failed, the persisted blob decodes to the
\* JSON value of the in-memory Document.
C1_PersistedEqualsMemoryWhenQuiescent ==
    ( /\ Quiescent
      /\ \E c \in Calls : call[c].save = "ok"
      /\ \A c \in Calls : call[c].save # "failed" /\ ~call[c].err )
    => /\ ~UnmarshalIntoInterface(blob).err
       /\ UnmarshalIntoInterface(blob).val = Encode(Data)

\* C2: once every issued call has returned, and the calls wrote pairwise
\* distinct keys, every written key holds exactly the value its call wrote.
C2_DistinctKeyWritesAllApplied ==
    ( /\ Quiescent
      /\ \A c, d \in Issued : c # d => call[c].key # call[d].key )
    => \A c \in Issued :
          /\ call[c].key \in DOMAIN Data.m
          /\ Data.m[call[c].key] = call[c].val

C2_Witness ==
    /\ Quiescent
    /\ Cardinality(Issued) >= 2
    /\ \A c, d \in Issued : c # d => call[c].key # call[d].key

\* C3: after every call has returned, a GetValue("settings") returns exactly
\* the value one of the calls on "settings" wrote, never a mixture.
C3_GetReturnsOneWholeValue ==
    ( /\ rd.pc = "runlock" /\ rd.op = "get" /\ rd.key = "settings"
      /\ Quiescent
      /\ \E c \in Issued : call[c].key = "settings" )
    => rd.res \in {call[c].val : c \in {d \in Issued : call[d].key = "settings"}}

C3_Witness ==
    /\ rd.pc = "runlock" /\ rd.op = "get" /\ rd.key = "settings"
    /\ Quiescent
    /\ \E c, d \in Issued :
          /\ call[c].key = "settings" /\ call[c].val = SettingsA
          /\ call[d].key = "settings" /\ call[d].val = SettingsB
    /\ rd.res \in {SettingsA, SettingsB}

\* C4: at most one UpdateKeyAndSave is inside its critical section, and no
\* GetValue / ToJSON / snapshot read is inside while a writer is.
C4_WriterExcludesEveryone ==
    /\ Cardinality(writers) <= 1
    /\ writers # {} => readers = {}
    /\ \A c, d \in Calls : InWrite(c) /\ InWrite(d) => c = d
    /\ (\E c \in Calls : InWrite(c)) => ~InRead /\ ~InSnapshot

\* two readers inside at the same time
C4_Witness == InRead /\ InSnapshot

\* C5: a call whose saveToStorage failed returns an error.
C5_SaveFailureReturnsError ==
    \A c \in Calls : Done(c) /\ call[c].save = "failed" => call[c].ret = "err"

\* C6: a failed save does not roll the write back: the key holds v until a
\* later write to it, and a later call whose save succeeds hands the backend
\* a Document that holds v under the key (unless the key was written again).
C6_FailedSaveKeepsWrite ==
    \A x \in Calls :
       Done(x) /\ call[x].save = "failed" =>
          /\ LastOnKey(x) => MapGet(Data, call[x].key) = call[x].val
          /\ \A y \in Calls :
                ( /\ Done(y) /\ call[y].save = "ok" /\ x \in call[y].after
                  /\ \A z \in Calls :
                        Applied(z) /\ Pos(z) > Pos(x) /\ Pos(z) <= Pos(y)
                           => call[z].key # call[x].key )
                => /\ call[y].data.t = "obj"
                   /\ call[x].key \in DOMAIN call[y].data.m
                   /\ call[y].data.m[call[x].key] = Encode(call[x].val)

C6_Witness ==
    \E x, y \in Calls :
       /\ Done(x) /\ call[x].save = "failed"
       /\ Done(y) /\ call[y].save = "ok" /\ x \in call[y].after
       /\ call[y].key # call[x].key
       /\ call[x].val = SettingsA
       /\ MapGet(Data, "settings") = SettingsA
       /\ blob = call[y].data

\* C7: when json.MarshalIndent fails, the call returns the error, the blob
\* is not written and s.Data is what it was before the call.
C7_MarshalFailureRejectsWrite ==
    [][\A c \in Calls :
          (call[c].pc = "unlock" /\ call[c].err /\ call'[c].pc = "done")
          => /\ call'[c].ret = "err"
             /\ blob' = blob
             /\ Data' = call[c].before]_vars

C10_EmptyDocumentIsNotPushed == sync.pc = "put" => ~IsEmptyDoc(sync.snap)

\* C11: the Reconciler is level-triggered: a failed push schedules nothing
\* extra, the next tick pushes the then-current stripped Document again; so
\* if the remote accepts pushes from some point on, then from some point on
\* either the Document is empty or the remote holds exactly the current
\* Document without its ids.
RemoteInSync == remote # NoPolicy /\ IsStripOf(remote, Encode(Data))
C12_RunLeavesDocumentAndBlob ==
    [][sync' # sync => Data' = Data /\ blob' = blob]_vars
\* after an accepted push of the stripped Document, Get still returns the ids
C12_Witness ==
    /\ RemoteInSync /\ NoIdKey(remote)
    /\ rd.pc = "runlock" /\ rd.op = "get" /\ rd.res = NestedV
    /\ sync.pc = "idle"

\* C18: UpdateKeyAndSave(key, nil) removes the key: the bytes handed to the
\* persistence backend do not hold the key at all.
C18_NullWriteRemovesKey ==
    \A c \in Calls :
        (call[c].pc \in {"unlock", "save"} /\ call[c].val = Null
            /\ call[c].data.t = "obj")
        => call[c].key \notin DOMAIN call[c].data.m

\* C19: LoadFromStorage on a missing or undeserializable blob leaves the
\* Document the empty mapping, and no later UpdateKeyAndSave panics on it.
LoadFails == stage = "boot" /\ stage' = "startup" /\ blob \in {NoBlob, Garbage}
C19_LoadFailureStartsEmpty ==
    /\ [][LoadFails => Data' = EmptyMap]_vars
    /\ [](\A c \in Calls : call[c].pc = "panic" => Data.t = "nilmap")
    /\ [](Data.t = "nilmap" => blob = Null)
\* the state file was garbage, and the first write went into the Document
C19_Witness ==
    /\ blob = Garbage /\ Len(applied) = 1
    /\ \A c \in Calls : call[c].pc = (IF c = applied[1] THEN "save" ELSE "idle")
    /\ Data.t = "obj" /\ Data # EmptyMap

\* the manager sub-capabilities of a capability value
ManagerCaps(appCaps) ==
    {appCaps[i]["manager"] : i \in {j \in 1..Len(appCaps) : "manager" \in DOMAIN appCaps[j]}}
Listed(list) == {list[i] : i \in 1..Len(list)}
Grants(c, m, seg) ==
    /\ m \in Listed(c.Methods) \/ "*" \in Listed(c.Methods)
    /\ seg \in Listed(c.Endpoints) \/ "*" \in Listed(c.Endpoints)
Authorized(appCaps, m, seg) == \E c \in ManagerCaps(appCaps) : Grants(c, m, seg)
\* the middleware has decided; the request went on to its handler, or not
Decided == areq.pc # "idle"
Proceeded == areq.pc = "handler" \/ areq.ran # ""
Denied == Decided /\ ~Proceeded
GenericMessage == "permission denied, please check tailscale capabilities"

\* C13: on every route, /state and /healthz included, a handler runs, and
\* the Document or the blob changes, only in a step of a request that the
\* middleware let through and that the capabilities authorize; a denied
\* request runs no handler.
C13_HandlersOnlyAfterAllow ==
    [][(Data' # Data \/ blob' # blob \/ (areq'.ran # areq.ran /\ areq'.ran # ""))
        => /\ areq.pc = "handler" /\ areq.status = 0 /\ areq.fault = "none"
           /\ Authorized(areq.caps, areq.method, firstPathSegment(areq.path))]_vars
\* a POST /settings was denied while no settings exist, and none were created
C13_Witness ==
    /\ Denied /\ areq.status = StatusUnauthorized
    /\ areq.method = "POST" /\ areq.path = <<"/", "settings">>
    /\ Data = EmptyMap /\ blob = NoBlob

\* C14: with the capability value resolved, the request is let through
\* exactly when one single manager sub-capability grants both its method
\* (or "*") and its first path segment (or "*").
C14_AllowedIffOneSubcapGrantsBoth ==
    (Decided /\ areq.fault = "none")
    => (Proceeded <=> Authorized(areq.caps, areq.method,
                                firstPathSegment(areq.path)))
\* POST is granted by one entry and "settings" by another: denied
C14_Witness ==
    /\ Denied /\ areq.fault = "none"
    /\ areq.method = "POST" /\ areq.path = <<"/", "settings">>
    /\ areq.caps = << [manager |-> TACLManagerCapability(<<"GET">>, <<"settings">>)],
                      [manager |-> TACLManagerCapability(<<"POST">>, <<"state", "">>)] >>

\* C15: a caller address that does not parse, a failed WhoIs, no entry for
\* lbrlabs.com/cap/tacl, a malformed capability value or an empty list
\* is answered 401, the chain is aborted and no handler runs.
FailsClosedCase ==
    \/ areq.fault \in {"hostport", "whois", "nocap", "marshal", "unmarshal"}
    \/ areq.fault = "none" /\ areq.caps = <<>>
C15_FailsClosed ==
    (Decided /\ FailsClosedCase)
    => areq.status = StatusUnauthorized /\ areq.pc = "done" /\ areq.ran = ""
\* a capability value that did not parse
C15_Witness ==
    /\ areq.fault = "unmarshal" /\ areq.pc = "done"
    /\ areq.status = StatusUnauthorized /\ areq.path = <<"/", "state">>

\* C16: every denial carries the same status and the same message, whatever
\* its cause.
C16_DenialsAreGeneric ==
    Denied => areq.status = StatusUnauthorized /\ areq.error = GenericMessage

\* C17 as stated: a request whose first path segment is empty is denied
\* unless some manager sub-capability lists the empty token.
EmptySegment == Decided /\ areq.fault = "none" /\ firstPathSegment(areq.path) = ""
C17_EmptySegmentNeedsEmptyToken ==
    (EmptySegment /\ \A c \in ManagerCaps(areq.caps) : "" \notin Listed(c.Endpoints))
    => Denied
\* C17: a request whose first path segment is empty is denied unless some
\* manager sub-capability lists the empty token or the wildcard "*" among
\* its endpoints.
C17_EmptySegmentNeedsEmptyTokenOrWildcard ==
    (EmptySegment /\ \A c \in ManagerCaps(areq.caps) :
                        "" \notin Listed(c.Endpoints) /\ "*" \notin Listed(c.Endpoints))
    => Denied /\ areq.status = StatusUnauthorized
\* GET / with a capability for GET settings only
C17_Witness ==
    /\ Denied /\ areq.method = "GET" /\ areq.path = <<"/">>
    /\ areq.caps = << [manager |-> TACLManagerCapability(<<"GET">>, <<"settings">>)] >>

\* C20: an update writes back, position by position, the ids it read; the
\* ids of a list are pairwise different; the id a create assigns was never
\* handed out before, so it is not the id of a deleted (or of any other) item.
StoredACLs == getACLsFromState
UniqueIDs(acls) ==
    \A i, j \in 1..Len(acls) : acls[i].id = acls[j].id => i = j
Wrote(r, op) ==
    /\ hreq[r].pc = "write" /\ hreq[r].op = op
    /\ hreq'[r].pc = "done" /\ hreq'[r].status # "404"
C20_IdsStableUniqueNeverReused ==
    /\ [](UniqueIDs(StoredACLs))
    /\ [][\A r \in Reqs :
            /\ Wrote(r, "update") =>
                  IDs(UnmarshalIntoACLs(Marshal(MapGet(Data', "acls")).bytes))
                     = IDs(hreq[r].acls)
            /\ Wrote(r, "create") =>
                  /\ hreq'[r].id \notin uuid
                  /\ ~HasID(hreq[r].acls, hreq'[r].id)
                  /\ ~HasID(StoredACLs, hreq'[r].id)]_vars
\* two items were created, one of them was deleted and the other is stored
C20_Witness ==
    /\ Len(StoredACLs) = 1
    /\ Cardinality(uuid) = 2
    /\ \E r \in Reqs :
          /\ hreq[r].op = "delete" /\ hreq[r].status = "200"
          /\ hreq[r].id # StoredACLs[1].id

\* C21: stripping is idempotent: stripping a stripped value changes nothing.
C21_StripIsIdempotent == pure.pc = "twice" => pure.twice = pure.once
\* an object with an "id" and, below it, another object with an "id"
C21_Witness ==
    /\ pure.pc = "twice"
    /\ pure.x = Obj([id |-> Str("id"),
                     name |-> Arr(<<Obj([id |-> Null, uid |-> Str("id")]),
                                    Str("id")>>)])

\* C22: a stripped value is the value without its members keyed exactly
\* "id": members keyed "name" or "uid", the string "id", every scalar and
\* every array element, in order, are kept at every depth.
C22_StripRemovesOnlyIdMembers ==
    pure.pc \in {"once", "twice"} => IsStripOf(pure.once, pure.x)
\* "uid" and the string "id" survive below a removed "id"
C22_Witness ==
    /\ pure.pc = "once"
    /\ pure.x = Obj([id |-> Obj([id |-> Null]),
                     name |-> Arr(<<Obj([id |-> Null, uid |-> Str("id")]),
                                    Str("id")>>)])
    /\ pure.once = Obj([name |-> Arr(<<Obj([uid |-> Str("id")]), Str("id")>>)])

\* C23: when sync is enabled, the first run starts in Start itself, before
\* the ticker exists, and afterwards one run starts per tick received from
\* ticker.C; when it is not enabled no run starts.
C23_OneRunAtStartThenOnePerTick ==
    /\ tick.fired > 0 => tick.runs >= 1
    /\ tick.runs = (IF tick.enabled /\ tick.main # "start" THEN 1 ELSE 0)
                      + tick.delivered
    /\ tick.fired = tick.delivered + tick.ch + tick.dropped
\* every tick was delivered and started its run
C23_Witness ==
    /\ tick.delivered = MaxTicks
    /\ tick.runs = MaxTicks + 1

\* C24: at most one run is in progress; the loop exists only after the
\* startup run has returned, and a tick that arrives during a run waits in
\* the channel or is dropped.
C24_OneRunAtATime ==
    /\ tick.build + tick.put <= 1
    /\ tick.main = "push" => tick.loop = "none"
    /\ tick.ch = 1 /\ tick.build + tick.put = 1 => tick.loop = "push"
\* a tick waits in the channel while the previous tick's push is in flight
C24_Witness ==
    /\ tick.loop = "push" /\ tick.put = 1
    /\ tick.ch = 1 /\ tick.dropped = 1

\* C26: a push that has started ends, with the remote's answer or as a
\* failure, so that the loop gets back to the ticker.
C26_PushIsBounded == (tick.put > 0) ~> (tick.put = 0)

\* C25 as stated: the Reconciler does not hold the read lock during the
\* remote push, and while it waits for the lock some request holds the
\* write lock.
C25_WaitsOnlyForAWriteHolder ==
    /\ sync.pc = "put" => "sync" \notin readers
    /\ sync.pc = "rlock" => writers # {}
\* C25: the Reconciler holds the read lock only while it copies and strips,
\* not during the remote push, so a request that waits for the lock never
\* waits for a push; and while the Reconciler waits for the lock some
\* request holds the write lock or is waiting for it in Lock().
C25_WaitsOnlyForAWriter ==
    /\ sync.pc = "put" => "sync" \notin readers
    /\ "sync" \in readers <=> sync.pc = "copy"
    /\ rd.pc = "rlock" => Announced # {}
    /\ sync.pc = "rlock" => Announced # {}
\* the Reconciler waits behind a writer that itself waits for a reader, and
\* nobody holds the write lock
C25_Witness ==
    /\ sync.pc = "rlock" /\ writers = {}
    /\ \E c \in Calls : call[c].pc = "drain"
    /\ rd.pc = "read"

\* C27: a Document that a successful UpdateKeyAndSave persisted and that
\* LoadFromStorage then loads into a fresh, empty store encodes to the same
\* JSON value as the Document that was serialized.
C27_RestartRoundTrip ==
    pure.pc = "loaded" /\ pure.D.t = "obj" => Encode(Data) = Encode(pure.D)

Answered(op, key, status) ==
    {r \in Reqs : /\ hreq[r].pc = "done" /\ hreq[r].op = op
                  /\ hreq[r].key = key /\ hreq[r].status = status}
\* C28: starting from no object, of the POST requests to a single-object
\* resource, sequential or concurrent, at most one more returns 201 than
\* DELETE requests have succeeded.
C28_OneCreateUntilDelete ==
    \A key \in Singles :
        Cardinality(Answered("POST", key, "201"))
            <= 1 + Cardinality(Answered("DELETE", key, "200"))

\* C29: a createGroup that answers 201 has added exactly one group and left
\* the members of every group that existed unchanged, and one that answers
\* 409 has changed nothing, whether or not the name carries "group:".
C29_CreateAddsOneGroup ==
    [][\A r \in Reqs :
          hreq[r].pc = "write" /\ hreq'[r].pc = "done" =>
              IF hreq'[r].status = "201"
              THEN /\ Cardinality(DOMAIN GroupsMap') = Cardinality(DOMAIN GroupsMap) + 1
                   /\ \A k \in DOMAIN GroupsMap : GroupsMap'[k] = GroupsMap[k]
              ELSE Data' = Data]_vars

StoredNonEmpty == cli.stored.t = "obj" /\ DOMAIN cli.stored.m # {}
\* C30: when init is over, if the stored state was non-empty, --force was
\* not given and the answer was not y / yes, init has cancelled and the
\* Document and the blob are the stored ones; otherwise the Document and the
\* blob are the embedded default ACL.
C30_InitOverwritesOnlyWithConsent ==
    cli.pc = "done" =>
        IF StoredNonEmpty /\ ~cli.force /\ ToLower(cli.answer) \notin {"y", "yes"}
        THEN /\ cli.out = "cancelled"
             /\ blob = cli.stored
             /\ Encode(Data) = cli.stored
        ELSE /\ Encode(Data) = Encode(DefaultACL)
             /\ blob = Encode(DefaultACL)

\* C31: the entry of every POST /acls that answered 201 is in the "acls"
\* collection until a DELETE of its id has succeeded, whatever other create,
\* update and delete requests run at the same time.
C31_AcknowledgedCreateStays ==
    \A r \in Reqs :
        (/\ hreq[r].pc = "done" /\ hreq[r].op = "create" /\ hreq[r].status = "201"
         /\ ~\E d \in Reqs : /\ hreq[d].pc = "done" /\ hreq[d].op = "delete"
                              /\ hreq[d].status = "200" /\ hreq[d].id = hreq[r].id)
            => HasID(StoredACLs, hreq[r].id)

\* C32: whoever holds the write lock is at a step of UpdateKeyAndSave that
\* leads to its Unlock, so that the lock is never left held for ever and a
\* later request acquires it; also after a state file that held null.
C32_LockIsReleased ==
    \A c \in writers : call[c].pc \in {"set", "marshal", "unlock"}

\* C33: the bytes a call hands to saveToStorage encode the whole Document
\* as it stood inside the call's own critical section: the Document the call
\* found when it got the lock, with the call's own write and no other; the
\* call is the only one inside then.  saveToStorage runs with those bytes
\* after the Unlock and before the call returns.
C33_SavedBytesAreOwnSnapshot ==
    /\ [](\A c \in Calls :
            /\ call[c].pc = "unlock" /\ ~call[c].err =>
                  /\ writers = {c} /\ readers = {}
                  /\ call[c].data = Encode(Data)
                  /\ call[c].data = Encode(MapSet(call[c].before, call[c].key, call[c].val))
                  /\ call[c].data.m[call[c].key] = Encode(call[c].val)
            /\ call[c].pc = "save" => c \notin writers /\ ~call[c].err
            /\ Done(c) /\ call[c].ret = "nil" => call[c].save \in {"ok", "failed"})
    /\ [][\A c \in Calls :
            /\ call[c].pc = "unlock" /\ call'[c].pc = "save" =>
                  call'[c].data = call[c].data /\ blob' = blob
            /\ call[c].pc = "save" /\ call'[c].pc = "done" =>
                  /\ call'[c].data = call[c].data
                  /\ blob' \in {call[c].data, blob, Garbage}
            /\ blob' # blob => \E d \in Calls : call[d].pc = "save" /\ Done(d)']_vars
\* a call is about to save bytes that another call's write has already
\* overtaken in memory
C33_Witness ==
    \E c, d \in Calls :
        /\ call[c].pc = "save" /\ call[d].pc = "unlock" /\ ~call[d].err
        /\ call[c].key = call[d].key
        /\ call[c].data # call[d].data

\* C34: a goroutine that reads or writes Document data, the value a
\* GetValue returned included, holds the lock while it does.
C34_DocumentOnlyUnderLock ==
    /\ \A c \in Calls : call[c].pc \in {"set", "marshal"} => c \in writers
    /\ rd.pc = "read" => "rd" \in readers
    /\ (rd.pc = "raw" /\ MapGet(Data, rd.key) = rd.res) => "rd" \in readers

\* C35: the step of UpdateKeyAndSave(k, v) that writes changes Document[k]
\* only, every other key keeps its value and no key disappears; no other
\* step of a call changes the Document; GetValue and ToJSON change neither
\* the Document nor the blob.
C35_UpdateChangesOnlyItsKey ==
    [][/\ \A c \in Calls :
            /\ call[c].pc = "set" /\ call'[c].pc = "marshal" =>
                  /\ DOMAIN Data'.m = DOMAIN Data.m \cup {call[c].key}
                  /\ \A k \in DOMAIN Data.m \ {call[c].key} : Data'.m[k] = Data.m[k]
                  /\ Data'.m[call[c].key] = call[c].val
            /\ call'[c] # call[c] /\ call[c].pc # "set" => Data' = Data
       /\ rd' # rd => Data' = Data /\ blob' = blob]_vars
\* a write to one key went in while the other key held a value
C35_Witness ==
    \E c \in Calls :
        /\ call[c].pc = "marshal" /\ call[c].key = "acls"
        /\ MapGet(Data, "settings") = SettingsB
        /\ MapGet(Data, "acls") = AclsV

\* the key is in the Document and holds nil: UpdateKeyAndSave(key, nil) ran
Nulled(key) == key \in DOMAIN Data.m /\ Data.m[key] = Null
\* C36: once UpdateKeyAndSave(key, nil) has stored nil, a get...FromState
\* finds no object, as on a store that never held one: GET answers with the
\* empty object (404 for /derpmap), PUT and DELETE answer 404 and change
\* nothing, and POST stores its object and answers 201.
C36_NullIsAbsentToHandlers ==
    /\ [][\A r \in Reqs :
            hreq[r].pc = "idle" /\ hreq'[r].pc # "idle" /\ Nulled(hreq'[r].key) =>
                /\ ~hreq'[r].existing
                /\ hreq'[r].op = "GET" =>
                      /\ hreq'[r].body = EmptyMap
                      /\ hreq'[r].status = IF hreq'[r].key = "derpMap" THEN "404" ELSE "200"]_vars
    /\ [][\A r \in Reqs :
            hreq[r].pc = "write" /\ hreq'[r].pc = "done" /\ ~hreq[r].existing =>
                IF hreq[r].op = "POST"
                THEN hreq'[r].status = "201" /\ MapGet(Data', hreq[r].key) = hreq[r].body
                ELSE hreq'[r].status = "404" /\ Data' = Data /\ blob' = blob]_vars
\* an object was created and deleted, and a POST that found none is about
\* to create it again
C36_Witness ==
    \E d, r \in Reqs :
        /\ hreq[d].pc = "done" /\ hreq[d].op = "DELETE" /\ hreq[d].status = "200"
        /\ hreq[r].pc = "write" /\ hreq[r].op = "POST" /\ ~hreq[r].existing
        /\ hreq[r].key = hreq[d].key
        /\ Nulled(hreq[d].key)

ACLsIn(data) ==
    IF MapGet(data, "acls") = Null THEN <<>>
    ELSE UnmarshalIntoACLs(Marshal(MapGet(data, "acls")).bytes)
NoManagerEntry(appCaps) ==
    \A i \in 1..Len(appCaps) : "manager" \notin DOMAIN appCaps[i]
C38_OnlyManagerEntriesCount ==
    (Decided /\ areq.fault = "none" /\ NoManagerEntry(areq.caps))
    => /\ Denied /\ areq.pc = "done"
       /\ areq.status = StatusUnauthorized
\* a "viewer" entry that lists every method and every endpoint: denied
C38_Witness ==
    /\ Denied /\ areq.fault = "none"
    /\ areq.method = "GET" /\ areq.path = <<"/", "settings">>
    /\ areq.caps = << [viewer |-> TACLManagerCapability(<<"*">>, <<"*">>)] >>
    /\ areq.status = StatusUnauthorized

\* the startup Push has returned without having pushed: the build failed,
\* the Document was empty, or putACL returned an error (the remote did not
\* answer, or answered outside 2xx)
StartupPushFailed ==
    /\ tick.enabled /\ tick.main \notin {"start", "push"}
    /\ tick.delivered = 0
    /\ tick.logged \in {"Failed to build Tailscale ACL JSON",
                        "Local state is empty; skipping ACL push.",
                        "Failed to push local ACL to Tailscale"}
\* runMain is past sync.Start and goes on to Listen and RunListener
Listening == tick.main \in {"listen", "skipped"}
\* C39: with sync enabled, a startup push that failed or was skipped is
\* followed by the start of the periodic loop and by the service listening;
\* with the admin client missing or the tailnet name empty no push is ever
\* attempted, no loop exists, and the service listens all the same.
C39_FailedStartupPushStopsNothing ==
    /\ [](StartupPushFailed => tick.main \in {"go", "listen"})
    /\ StartupPushFailed ~> (tick.main = "listen" /\ tick.loop # "none")
    /\ [](~tick.enabled => /\ tick.runs = 0 /\ tick.build = 0 /\ tick.put = 0
                           /\ tick.loop = "none" /\ tick.fired = 0)
    /\ ~tick.enabled ~> (tick.main = "skipped")
\* the startup push failed at the remote; the service listens and the loop
\* is in the push of its first tick
C39_Witness ==
    /\ tick.enabled /\ Listening
    /\ tick.logged = "Failed to push local ACL to Tailscale"
    /\ tick.delivered = 1 /\ tick.loop = "push" /\ tick.runs = 2

====
